---------------------------- MODULE Spec2Model ----------------------------
(***************************************************************************)
(* A model of the sprites package: sheet construction (sheet.go), the      *)
(* Entity / Mode containers (entity, mode.go) and the per-Instance         *)
(* animation cursor (animation).                                           *)
(*                                                                         *)
(* Pointers are modelled as references into two heaps: an Entity is        *)
(* referred to by the index it was constructed at, a Mode by the pair      *)
(* <<entity index, mode index>> it was constructed at.  A map[K]V is a     *)
(* function whose DOMAIN is the set of present keys.                       *)
(***************************************************************************)
EXTENDS Integers, Sequences, FiniteSets, TLC

(* Bounds of the explored inputs. *)
MaxPerRow == 2
MaxPerCol == 2
MaxModes == 3
MaxFrames == 3
MaxEvery == 3
MaxCells == 6
MaxPairEvery == 2

VARIABLES
    sheet,       \* the *Sheet a constructor returned: entities, entityNamesToIndex
    entityObj,   \* heap of Entity objects, by entity reference
    modeObj,     \* heap of Mode objects, by mode reference
    instances,   \* the Instances created so far (each with its animation)
    ctor,        \* the arguments and results of the last constructor call
    last,        \* the last method call: receiver, arguments, results
    streak       \* the run of consecutive Frame() calls on one Instance

vars == <<sheet, entityObj, modeObj, instances, ctor, last, streak>>

---------------------------------------------------------------------------
(* Maps *)

MapPut(f, k, v) == [x \in (DOMAIN f) \cup {k} |-> IF x = k THEN v ELSE f[x]]

MapDelete(f, k) == [x \in (DOMAIN f) \ {k} |-> f[x]]

MapLen(f) == Cardinality(DOMAIN f)

EmptyMap == <<>>

Max(a, b) == IF a >= b THEN a ELSE b

Min(a, b) == IF a <= b THEN a ELSE b

---------------------------------------------------------------------------
(* image.Point / image.Rectangle, as sheet.go uses them *)

Pt(x, y) == [X |-> x, Y |-> y]

ZR == [Min |-> Pt(0, 0), Max |-> Pt(0, 0)]

\* image.Rect: the rectangle with the corners ordered
Rect(x0, y0, x1, y1) ==
    [Min |-> Pt(Min(x0, x1), Min(y0, y1)), Max |-> Pt(Max(x0, x1), Max(y0, y1))]

RectAdd(r, p) ==
    [Min |-> Pt(r.Min.X + p.X, r.Min.Y + p.Y), Max |-> Pt(r.Max.X + p.X, r.Max.Y + p.Y)]

Dx(r) == r.Max.X - r.Min.X

Dy(r) == r.Max.Y - r.Min.Y

RectEmpty(r) == r.Min.X >= r.Max.X \/ r.Min.Y >= r.Max.Y

RectIntersect(r, s) ==
    LET c == [Min |-> Pt(Max(r.Min.X, s.Min.X), Max(r.Min.Y, s.Min.Y)),
              Max |-> Pt(Min(r.Max.X, s.Max.X), Min(r.Max.Y, s.Max.Y))]
    IN  IF RectEmpty(c) THEN ZR ELSE c

PtIn(p, r) == r.Min.X <= p.X /\ p.X < r.Max.X /\ r.Min.Y <= p.Y /\ p.Y < r.Max.Y

(* An image is its bounds and the set of its pixels that are not fully     *)
(* opaque.  A Sprite is a sub-image sharing the pixels: it is identified   *)
(* by its bounds within the sheet image.                                   *)
Image(bounds, clear, isRGBA) == [Bounds |-> bounds, clear |-> clear, isRGBA |-> isRGBA]

\* (*image.RGBA).SubImage: the part of r inside the image
SubImage(img, r) == RectIntersect(r, img.Bounds)

\* (*image.RGBA).Opaque of the sub-image with bounds r
Opaque(img, r) == \A p \in img.clear : ~PtIn(p, r)

---------------------------------------------------------------------------
(* SheetDimensions *)

Dimensions(epr, epc, mpe, fpa, frr, sw, sh, rw, rh) ==
    [EntitiesPerRow |-> epr, EntitiesPerColumn |-> epc, ModesPerEntity |-> mpe,
     FramesPerAnimation |-> fpa, FramesRunRows |-> frr,
     numEntityColumns |-> 0, numEntityRows |-> 0,
     SpriteWidth |-> sw, SpriteHeight |-> sh, ResizeWidth |-> rw, ResizeHeight |-> rh]

\* SheetDimensions.init

DimInit(d) ==
    IF d.FramesRunRows
    THEN [d EXCEPT !.numEntityColumns = d.FramesPerAnimation, !.numEntityRows = d.ModesPerEntity]
    ELSE [d EXCEPT !.numEntityColumns = d.ModesPerEntity, !.numEntityRows = d.FramesPerAnimation]

EntityAndModeNames(en, mn) == [EntityName |-> en, ModeNames |-> mn]

\* strconv.Itoa
Itoa(i) == ToString(i)

\* generateModeNames
generateModeNames(count) == [k \in 1..Max(count, 0) |-> "Mode" \o Itoa(k - 1)]

---------------------------------------------------------------------------
(* Sheet construction *)

AllPositiveButSpriteHeight(d) ==
    ~(d.EntitiesPerRow <= 0 \/ d.EntitiesPerColumn <= 0 \/ d.ModesPerEntity <= 0 \/
      d.FramesPerAnimation <= 0 \/ d.SpriteWidth <= 0)

AllPositive(d) ==
    ~(d.EntitiesPerRow <= 0 \/ d.EntitiesPerColumn <= 0 \/ d.ModesPerEntity <= 0 \/
      d.FramesPerAnimation <= 0 \/ d.SpriteWidth <= 0 \/ d.SpriteHeight <= 0)

ExpectedWidth(d) == d.EntitiesPerRow * d.numEntityColumns * d.SpriteWidth

ExpectedHeight(d) == d.EntitiesPerColumn * d.numEntityRows * d.SpriteHeight

(* The conversion to *image.RGBA: image.NewRGBA(bounds) is fully            *)
(* transparent, and draw.Draw copies from the source point (0,0), so the    *)
(* pixel at p of the copy is the source's pixel at p - Bounds.Min where the *)
(* source has one, and stays transparent elsewhere.                         *)
ToRGBA(img) ==
    IF img.isRGBA THEN img
    ELSE LET b == img.Bounds
             pts == {Pt(x, y) : x \in b.Min.X..(b.Max.X - 1), y \in b.Min.Y..(b.Max.Y - 1)}
             src(p) == Pt(p.X - b.Min.X, p.Y - b.Min.Y)
         IN  Image(b, {p \in pts : ~PtIn(src(p), b) \/ src(p) \in img.clear}, TRUE)

(* float32(num) / float32(den) for 0 <= num, 0 < den, both below 128 (so     *)
(* that the conversions are exact and the quotient is below 2^24): the      *)
(* float32 nearest to the quotient, ties to the even mantissa, as the       *)
(* 24-bit mantissa m and the scale s of the value m / 2^s.                  *)
F32Quotient(num, den) ==
    IF num = 0 THEN [m |-> 0, s |-> 0]
    ELSE LET s == CHOOSE i \in 0..30 : 8388608 * den <= num * 2^i /\ num * 2^i < 16777216 * den
             q == (num * 2^s) \div den
             r == (num * 2^s) % den
             m == IF 2 * r > den \/ (2 * r = den /\ q % 2 = 1) THEN q + 1 ELSE q
         IN  IF m = 16777216 THEN [m |-> 8388608, s |-> s - 1] ELSE [m |-> m, s |-> s]

(* uint(float32(n) * f) for 0 <= n < 2048 and a float32 f of F32Quotient:   *)
(* the product n * f.m is rounded to a 24-bit mantissa (ties to even) and   *)
(* the conversion to uint drops the fraction. The product is held as        *)
(* hi * 4096 + lo, which keeps every intermediate value within 32 bits.     *)
F32ScaleToUint(n, f) ==
    IF n = 0 \/ f.m = 0 THEN 0
    ELSE LET hi == n * (f.m \div 4096) + (n * (f.m % 4096)) \div 4096
             lo == (n * (f.m % 4096)) % 4096
             t == CHOOSE i \in 0..11 : 2048 * 2^i <= hi /\ hi < 4096 * 2^i
             q == hi * 2^(12 - t) + lo \div 2^t
             r == lo % 2^t
             m == IF 2 * r > 2^t \/ (2 * r = 2^t /\ q % 2 = 1) THEN q + 1 ELSE q
         IN  IF t >= f.s THEN m * 2^(t - f.s) ELSE m \div 2^(f.s - t)

(* the float32 comparison of the two aspect ratios; SpriteWidth and         *)
(* SpriteHeight are positive here, and a ResizeHeight of zero or below      *)
(* gives +Inf or a negative quotient, which equals no positive one          *)
SameAspect(d) ==
    /\ d.ResizeHeight > 0
    /\ F32Quotient(d.ResizeWidth, d.ResizeHeight) = F32Quotient(d.SpriteWidth, d.SpriteHeight)

ResizeWanted(d) == d.ResizeWidth > 0 /\ d.ResizeWidth # d.SpriteWidth

(* ccsl_graphics.ResizeMaintain is an external collaborator: taken to       *)
(* return an image of the requested size at the origin, each pixel scaled.  *)
ResizeMaintain(img, w, h) ==
    LET b == img.Bounds
    IN  Image(Rect(0, 0, w, h),
              {Pt(((p.X - b.Min.X) * w) \div Max(Dx(b), 1), ((p.Y - b.Min.Y) * h) \div Max(Dy(b), 1)) :
                  p \in img.clear},
              TRUE)

\* createSpriteSheet: the image to slice, the dimensions as it leaves them, the error
createSpriteSheet(img, d) ==
    IF ~AllPositive(d) THEN [img |-> img, dims |-> d, err |-> TRUE]
    ELSE IF Dx(img.Bounds) # ExpectedWidth(d) THEN [img |-> img, dims |-> d, err |-> TRUE]
    ELSE IF Dy(img.Bounds) # ExpectedHeight(d) THEN [img |-> img, dims |-> d, err |-> TRUE]
    ELSE LET rgba == ToRGBA(img)
         IN  IF ResizeWanted(d)
             THEN IF ~SameAspect(d) THEN [img |-> img, dims |-> d, err |-> TRUE]
                  ELSE LET resizeRatio == F32Quotient(d.ResizeWidth, d.SpriteWidth)
                       IN
                       [img |-> ResizeMaintain(rgba,
                                   F32ScaleToUint(Dx(img.Bounds), resizeRatio),
                                   F32ScaleToUint(Dy(img.Bounds), resizeRatio)),
                        dims |-> [d EXCEPT !.SpriteWidth = d.ResizeWidth,
                                           !.SpriteHeight = d.ResizeHeight],
                        err |-> FALSE]
             ELSE [img |-> rgba, dims |-> d, err |-> FALSE]

EntityOriginInFirstRow(img, d, i) ==
    Pt(((i % d.EntitiesPerRow) * d.numEntityColumns * d.SpriteWidth) + img.Bounds.Min.X,
       img.Bounds.Min.Y)

\* generateEntities, lines 247-248: the pixel origin of entity i
EntityOrigin(img, d, i) ==
    Pt(((i % d.EntitiesPerRow) * d.numEntityColumns * d.SpriteWidth) + img.Bounds.Min.X,
       ((i \div d.EntitiesPerRow) * d.numEntityRows * d.SpriteHeight) + img.Bounds.Min.Y)

\* generateEntities, lines 261-267: the cell of frame f of mode j within its entity
FrameCellSwapped(d, j, f) == IF d.FramesRunRows THEN Pt(j, f) ELSE Pt(f, j)

FrameCellIgnoringOrientation(d, j, f) == Pt(j, f)

FrameCell(d, j, f) == IF d.FramesRunRows THEN Pt(f, j) ELSE Pt(j, f)

\* generateEntities, line 268: the sub-image extracted for (entity i, mode j, frame f)
FrameAt(img, d, i, j, f) ==
    LET o == EntityOrigin(img, d, i)
        c == FrameCell(d, j, f)
        spriteSize == Rect(0, 0, d.SpriteWidth, d.SpriteHeight)
    IN  SubImage(img, RectAdd(spriteSize, Pt(o.X + c.X * d.SpriteWidth, o.Y + c.Y * d.SpriteHeight)))

\* a map built by assigning name -> index in index order: the last index wins
NameIndex(nameSeq) ==
    [n \in {x \in {nameSeq[k] : k \in DOMAIN nameSeq} : TRUE} |->
        CHOOSE k \in DOMAIN nameSeq :
            nameSeq[k] = n /\ \A k2 \in DOMAIN nameSeq : nameSeq[k2] = n => k2 <= k]

ZeroBased(f) == [n \in DOMAIN f |-> f[n] - 1]

\* generateEntities, lines 255-275: the Mode built for (entity i, mode j)
NewMode(img, d, i, j, modeName) ==
    LET frames == [f1 \in 1..d.FramesPerAnimation |-> FrameAt(img, d, i, j, f1 - 1)]
    IN  [name |-> modeName,
         spriteSize |-> Rect(0, 0, d.SpriteWidth, d.SpriteHeight),
         fullyOpaque |-> \A f1 \in DOMAIN frames : Opaque(img, frames[f1]),
         frames |-> frames]

\* generateEntities, lines 249-253, 275: the Entity built at index i
NewEntity(i, emNames) ==
    [name |-> emNames.EntityName,
     modes |-> [j \in 0..(Len(emNames.ModeNames) - 1) |-> <<i, j>>],
     modeNamesToIndex |-> ZeroBased(NameIndex(emNames.ModeNames))]

NoSheet == [nil |-> TRUE, entities |-> EmptyMap, entityNamesToIndex |-> EmptyMap]

GeneratePanics(d, names) ==
    \/ Len(names) > d.EntitiesPerRow * d.EntitiesPerColumn
    \/ \E k \in DOMAIN names : Len(names[k].ModeNames) > d.ModesPerEntity

\* generateEntities
generateEntities(img, d, names) ==
    IF GeneratePanics(d, names)
    THEN [panics |-> TRUE, sheet |-> NoSheet, entityObj |-> EmptyMap, modeObj |-> EmptyMap]
    ELSE [panics |-> FALSE,
          sheet |-> [nil |-> FALSE,
                     entities |-> [i \in 0..(Len(names) - 1) |-> i],
                     entityNamesToIndex |->
                         ZeroBased(NameIndex([k \in DOMAIN names |-> names[k].EntityName]))],
          entityObj |-> [i \in 0..(Len(names) - 1) |-> NewEntity(i, names[i + 1])],
          modeObj |-> [r \in UNION {{<<k - 1, j>> : j \in 0..(Len(names[k].ModeNames) - 1)} :
                                        k \in DOMAIN names} |->
                          NewMode(img, d, r[1], r[2], names[r[1] + 1].ModeNames[r[2] + 1])]]

\* what a constructor hands back: (*Sheet, error), or a panic
Failed(isPanic) ==
    [err |-> ~isPanic, panics |-> isPanic, sheet |-> NoSheet,
     entityObj |-> EmptyMap, modeObj |-> EmptyMap]

Built(g) ==
    [err |-> FALSE, panics |-> FALSE, sheet |-> g.sheet,
     entityObj |-> g.entityObj, modeObj |-> g.modeObj]

\* the zero results (nil, nil) of a function that recovered from a panic
Recovered ==
    [err |-> FALSE, panics |-> FALSE, sheet |-> NoSheet,
     entityObj |-> EmptyMap, modeObj |-> EmptyMap]

AutoNamesOneRow(d) ==
    [k \in 1..d.EntitiesPerRow |->
        EntityAndModeNames("GetEntity" \o Itoa(k - 1), generateModeNames(d.ModesPerEntity))]

\* NewSheet, lines 112-116
AutoNames(d) ==
    [k \in 1..(d.EntitiesPerRow * d.EntitiesPerColumn) |->
        EntityAndModeNames("GetEntity" \o Itoa(k - 1), generateModeNames(d.ModesPerEntity))]

NewSheet(img, dimensions) ==
    LET css == createSpriteSheet(img, DimInit(dimensions))
    IN  IF css.err THEN Failed(FALSE)
        ELSE Built(generateEntities(css.img, css.dims, AutoNames(css.dims)))

NewSheetWithEntityAndSharedModeNames(img, dimensions, entityNames, modeNames) ==
    IF Len(entityNames) > dimensions.EntitiesPerRow * dimensions.EntitiesPerColumn
    THEN Failed(FALSE)
    ELSE LET css == createSpriteSheet(img, DimInit(dimensions))
             names == [k \in DOMAIN entityNames |-> EntityAndModeNames(entityNames[k], modeNames)]
             g == generateEntities(css.img, css.dims, names)
         IN  IF css.err THEN Failed(FALSE)
             ELSE IF g.panics THEN Failed(TRUE)
             ELSE Built(g)

NewSheetWithEntityNames(img, dimensions, entityNames) ==
    NewSheetWithEntityAndSharedModeNames(img, dimensions, entityNames,
                                         generateModeNames(dimensions.ModesPerEntity))

NewSheetWithNamesUnchecked(img, dimensions, names) ==
    LET css == createSpriteSheet(img, DimInit(dimensions))
        g == generateEntities(css.img, css.dims, names)
    IN  IF css.err THEN Failed(FALSE)
        ELSE IF g.panics THEN Recovered
        ELSE Built(g)

NewSheetWithNames(img, dimensions, names) ==
    IF Len(names) > dimensions.EntitiesPerRow * dimensions.EntitiesPerColumn
    THEN Failed(FALSE)
    ELSE LET css == createSpriteSheet(img, DimInit(dimensions))
             g == generateEntities(css.img, css.dims, names)
         IN  IF css.err THEN Failed(FALSE)
             ELSE IF g.panics THEN Recovered
             ELSE Built(g)

---------------------------------------------------------------------------
(* The constructor arguments explored *)

SpriteSizes == {<<16, 16>>, <<2, 1>>}

BadValues == {0, -1}

ValidDims ==
    {Dimensions(epr, epc, mpe, fpa, frr, s[1], s[2], 0, 0) :
        epr \in 1..MaxPerRow, epc \in 1..MaxPerCol, mpe \in 1..MaxModes,
        fpa \in 1..MaxFrames, frr \in BOOLEAN, s \in SpriteSizes}

\* valid dimensions with one field made non-positive
BadDims ==
    UNION {{[d EXCEPT !.EntitiesPerRow = b], [d EXCEPT !.EntitiesPerColumn = b],
            [d EXCEPT !.ModesPerEntity = b], [d EXCEPT !.FramesPerAnimation = b],
            [d EXCEPT !.SpriteWidth = b], [d EXCEPT !.SpriteHeight = b]} :
           d \in {v \in ValidDims : v.SpriteWidth = 2}, b \in BadValues}

\* valid dimensions with a resize asked for: to twice the size, with the aspect ratio or
\* the size unchanged in one direction, and one single sprite from 11x11 to 13x13, a ratio
\* that float32 rounds down
ResizeDims ==
    UNION {{[d EXCEPT !.ResizeWidth = 2 * d.SpriteWidth, !.ResizeHeight = 2 * d.SpriteHeight],
            [d EXCEPT !.ResizeWidth = 2 * d.SpriteWidth, !.ResizeHeight = d.SpriteHeight],
            [d EXCEPT !.ResizeWidth = d.SpriteWidth, !.ResizeHeight = 2 * d.SpriteHeight],
            [d EXCEPT !.ResizeWidth = d.SpriteWidth, !.ResizeHeight = d.SpriteHeight],
            [d EXCEPT !.ResizeWidth = 0, !.ResizeHeight = 2 * d.SpriteHeight]} :
           d \in {v \in ValidDims : v.SpriteWidth = 2}}
    \cup {Dimensions(1, 1, 1, 1, FALSE, 11, 11, 13, 13)}

\* the image size the dimensions call for
FitW(d) == ExpectedWidth(DimInit(d))

FitH(d) == ExpectedHeight(DimInit(d))

PlainImage(d) == Image(Rect(0, 0, FitW(d), FitH(d)), {}, TRUE)

ImagesFor(d) ==
    {PlainImage(d),
     Image(Rect(3, 5, 3 + FitW(d), 5 + FitH(d)), {}, TRUE),
     Image(Rect(0, 0, FitW(d), FitH(d)), {Pt(0, 0)}, TRUE),
     Image(Rect(0, 0, FitW(d), FitH(d)), {Pt(FitW(d) - 1, FitH(d) - 1)}, TRUE),
     Image(Rect(0, 0, FitW(d) - 1, FitH(d)), {}, TRUE),
     Image(Rect(0, 0, FitW(d), FitH(d) - 1), {}, TRUE)}
    \cup (IF d.SpriteWidth = 2 THEN {Image(Rect(1, 1, 1 + FitW(d), 1 + FitH(d)), {}, FALSE)} ELSE {})

\* <<dimensions, image>> pairs
CtorInputs ==
    UNION {{<<d, img>> : img \in ImagesFor(d)} : d \in ValidDims}
    \cup {<<d, PlainImage(d)>> : d \in BadDims \cup ResizeDims}

\* images one pixel short of what the dimensions call for, in width or in height
ShortImages(d) ==
    {Image(Rect(0, 0, FitW(d) - 1, FitH(d)), {}, TRUE),
     Image(Rect(0, 0, FitW(d), FitH(d) - 1), {}, TRUE)}

NamedInputs ==
    {<<d, PlainImage(d)>> : d \in ValidDims \cup BadDims}
    \cup UNION {{<<d, img>> : img \in ShortImages(d)} : d \in ValidDims}

\* n entity names, pairwise distinct, or repeating with period 2
EntityNameList(n, dup) == [k \in 1..n |-> "N" \o Itoa(IF dup THEN (k - 1) % 2 ELSE k - 1)]

ModeNameList(m) == [k \in 1..m |-> "M" \o Itoa(k - 1)]

Capacity(d) == Max(d.EntitiesPerRow * d.EntitiesPerColumn, 0)

\* per-entity mode-name lists: all of length m, or of lengths m, m+1, ... wrapping after ModesPerEntity+1
NamesList(d, n, m, vary) ==
    [k \in 1..n |->
        EntityAndModeNames("N" \o Itoa(k - 1),
            ModeNameList(IF vary THEN (m + k - 1) % (Max(d.ModesPerEntity, 0) + 2) ELSE m))]

---------------------------------------------------------------------------
(* State *)

NoCtor ==
    [op |-> "none", img |-> Image(ZR, {}, TRUE), dims |-> Dimensions(0, 0, 0, 0, FALSE, 0, 0, 0, 0),
     entityNames |-> <<>>, modeNames |-> <<>>, names |-> <<>>, err |-> FALSE, panics |-> FALSE]

NoMode == <<-1, -1>>

NoCall ==
    [op |-> "none", inst |-> 0, ent |-> -1, mode |-> NoMode, n |-> 0, name |-> "",
     err |-> FALSE, panics |-> FALSE, ret |-> ZR]

NoStreak ==
    [inst |-> 0, after |-> "none", calls |-> 0, first |-> ZR, cf0 |-> 0, ct0 |-> 0,
     wasRunning |-> FALSE]

\* a constructor call: the caller keeps what it returned
Construct(op, img, d, entityNames, modeNames, names, res) ==
    /\ sheet' = res.sheet
    /\ entityObj' = res.entityObj
    /\ modeObj' = res.modeObj
    /\ instances' = <<>>
    /\ ctor' = [op |-> op, img |-> img, dims |-> d, entityNames |-> entityNames,
                modeNames |-> modeNames, names |-> names, err |-> res.err, panics |-> res.panics]
    /\ last' = NoCall
    /\ streak' = NoStreak

CallNewSheet ==
    /\ ctor.op = "none"
    /\ \E in \in CtorInputs :
        Construct("NewSheet", in[2], in[1], <<>>, <<>>, <<>>, NewSheet(in[2], in[1]))

CallNewSheetWithEntityNames ==
    /\ ctor.op = "none"
    /\ \E in \in NamedInputs : \E n \in 0..(Capacity(in[1]) + 1), dup \in BOOLEAN :
        LET en == EntityNameList(n, dup)
        IN  Construct("NewSheetWithEntityNames", in[2], in[1], en, <<>>, <<>>,
                      NewSheetWithEntityNames(in[2], in[1], en))

CallNewSheetWithEntityAndSharedModeNames ==
    /\ ctor.op = "none"
    /\ \E in \in NamedInputs : \E n \in 0..(Capacity(in[1]) + 1), m \in 0..(Max(in[1].ModesPerEntity, 0) + 1) :
        LET en == EntityNameList(n, FALSE)
            mn == ModeNameList(m)
        IN  Construct("NewSheetWithEntityAndSharedModeNames", in[2], in[1], en, mn, <<>>,
                      NewSheetWithEntityAndSharedModeNames(in[2], in[1], en, mn))

CallNewSheetWithNames ==
    /\ ctor.op = "none"
    /\ \E in \in NamedInputs : \E n \in 0..(Capacity(in[1]) + 1), m \in 0..(Max(in[1].ModesPerEntity, 0) + 1),
                               vary \in BOOLEAN :
        LET names == NamesList(in[1], n, m, vary)
        IN  Construct("NewSheetWithNames", in[2], in[1], <<>>, <<>>, names,
                      NewSheetWithNames(in[2], in[1], names))

InitBuild ==
    /\ sheet = NoSheet
    /\ entityObj = EmptyMap
    /\ modeObj = EmptyMap
    /\ instances = <<>>
    /\ ctor = NoCtor
    /\ last = NoCall
    /\ streak = NoStreak

NextBuild ==
    \/ CallNewSheet
    \/ CallNewSheetWithEntityNames
    \/ CallNewSheetWithEntityAndSharedModeNames
    \/ CallNewSheetWithNames

\* the constructors, called with every explored argument
SpecBuild == InitBuild /\ [][NextBuild]_vars

---------------------------------------------------------------------------
(* Queries *)

\* Sheet.EntityCount
EntityCount == MapLen(sheet.entities)

\* Entity.ModeCount
ModeCount(e) == MapLen(entityObj[e].modes)

\* Mode.FrameCount
FrameCount(m) == Len(modeObj[m].frames)

NotFound == [ref |-> -1, err |-> TRUE, panics |-> FALSE]

Corrupted == [ref |-> -1, err |-> FALSE, panics |-> TRUE]

Found(r) == [ref |-> r, err |-> FALSE, panics |-> FALSE]

GetEntityByIndexOrFirst(idx) ==
    IF idx \in DOMAIN sheet.entities THEN Found(sheet.entities[idx]) ELSE Found(sheet.entities[0])

\* Sheet.GetEntityByIndex
GetEntityByIndex(idx) ==
    IF idx \in DOMAIN sheet.entities THEN Found(sheet.entities[idx]) ELSE NotFound

\* Sheet.GetEntityByName
GetEntityByName(name) ==
    IF name \in DOMAIN sheet.entityNamesToIndex
    THEN IF sheet.entityNamesToIndex[name] \in DOMAIN sheet.entities
         THEN Found(sheet.entities[sheet.entityNamesToIndex[name]])
         ELSE Corrupted
    ELSE NotFound

NoModeFound == [ref |-> NoMode, err |-> TRUE, panics |-> FALSE]

ModeCorrupted == [ref |-> NoMode, err |-> FALSE, panics |-> TRUE]

\* Entity.GetModeByIndex
GetModeByIndex(e, idx) ==
    IF idx \in DOMAIN entityObj[e].modes THEN Found(entityObj[e].modes[idx]) ELSE NoModeFound

\* Entity.GetModeByName
GetModeByName(e, name) ==
    IF name \in DOMAIN entityObj[e].modeNamesToIndex
    THEN IF entityObj[e].modeNamesToIndex[name] \in DOMAIN entityObj[e].modes
         THEN Found(entityObj[e].modes[entityObj[e].modeNamesToIndex[name]])
         ELSE ModeCorrupted
    ELSE NoModeFound

---------------------------------------------------------------------------
(* Construction: C8, C9, C10 *)

SheetBuilt == ~sheet.nil

\* the mode-name list entity index i was constructed from
ModeNamesGiven(i) ==
    CASE ctor.op = "NewSheetWithEntityAndSharedModeNames" -> ctor.modeNames
      [] ctor.op = "NewSheetWithNames" -> ctor.names[i + 1].ModeNames
      [] OTHER -> <<>>

AutoNamedModes == ctor.op \in {"NewSheet", "NewSheetWithEntityNames"}

(* C8: a constructor that returns a Sheet returns one with                  *)
(* EntitiesPerRow * EntitiesPerColumn entities of ModesPerEntity modes each *)
(* (NewSheet), or with as many entities as entity entries were supplied,    *)
(* each with as many modes as its mode-name list is long (ModesPerEntity    *)
(* when the mode names are generated); every mode has FramesPerAnimation    *)
(* frames.                                                                  *)
C8_ConstructionCardinalities ==
    SheetBuilt =>
        /\ ctor.op = "NewSheet" =>
               EntityCount = ctor.dims.EntitiesPerRow * ctor.dims.EntitiesPerColumn
        /\ ctor.op \in {"NewSheetWithEntityNames", "NewSheetWithEntityAndSharedModeNames"} =>
               EntityCount = Len(ctor.entityNames)
        /\ ctor.op = "NewSheetWithNames" => EntityCount = Len(ctor.names)
        /\ DOMAIN sheet.entities = 0..(EntityCount - 1)
        /\ \A i \in DOMAIN sheet.entities :
               LET e == GetEntityByIndex(i).ref
               IN  /\ ModeCount(e) = IF AutoNamedModes THEN ctor.dims.ModesPerEntity
                                     ELSE Len(ModeNamesGiven(i))
                   /\ DOMAIN entityObj[e].modes = 0..(ModeCount(e) - 1)
                   /\ \A j \in DOMAIN entityObj[e].modes :
                          FrameCount(GetModeByIndex(e, j).ref) = ctor.dims.FramesPerAnimation

\* C8 witness: a Sheet built from per-entity names whose entities differ in mode count
C8_Witness ==
    /\ SheetBuilt
    /\ ctor.op = "NewSheetWithNames"
    /\ EntityCount = 3
    /\ ModeCount(0) = 1 /\ ModeCount(1) = 2
    /\ FrameCount(<<1, 1>>) = 3

(* C9: a Sheet built by NewSheet finds entity i under the name "Entity"+i   *)
(* and, in each entity, mode j under the name "Mode"+j.                     *)
C9_AutoNaming ==
    (SheetBuilt /\ ctor.op = "NewSheet") =>
        \A i \in 0..(ctor.dims.EntitiesPerRow * ctor.dims.EntitiesPerColumn - 1) :
            /\ GetEntityByName("Entity" \o Itoa(i)) = GetEntityByIndex(i)
            /\ ~GetEntityByIndex(i).err
            /\ \A j \in 0..(ctor.dims.ModesPerEntity - 1) :
                   /\ GetModeByName(GetEntityByIndex(i).ref, "Mode" \o Itoa(j))
                          = GetModeByIndex(GetEntityByIndex(i).ref, j)
                   /\ ~GetModeByIndex(GetEntityByIndex(i).ref, j).err

\* the sprite size frames are cut at: the resize size when the sheet was resized
CutWidth ==
    IF ctor.dims.ResizeWidth > 0 /\ ctor.dims.ResizeWidth # ctor.dims.SpriteWidth
    THEN ctor.dims.ResizeWidth ELSE ctor.dims.SpriteWidth

CutHeight ==
    IF ctor.dims.ResizeWidth > 0 /\ ctor.dims.ResizeWidth # ctor.dims.SpriteWidth
    THEN ctor.dims.ResizeHeight ELSE ctor.dims.SpriteHeight

\* the origin of the image that was cut: a resized image starts at (0,0)
CutOrigin ==
    IF ctor.dims.ResizeWidth > 0 /\ ctor.dims.ResizeWidth # ctor.dims.SpriteWidth
    THEN Pt(0, 0) ELSE ctor.img.Bounds.Min

\* the rectangle the layout formula of C10 gives (entity i, mode j, frame f)
LayoutRect(i, j, f) ==
    LET d == ctor.dims
        cpe == IF d.FramesRunRows THEN d.FramesPerAnimation ELSE d.ModesPerEntity
        rpe == IF d.FramesRunRows THEN d.ModesPerEntity ELSE d.FramesPerAnimation
        dx == IF d.FramesRunRows THEN f ELSE j
        dy == IF d.FramesRunRows THEN j ELSE f
        x == CutOrigin.X + (i % d.EntitiesPerRow) * cpe * CutWidth + dx * CutWidth
        y == CutOrigin.Y + (i \div d.EntitiesPerRow) * rpe * CutHeight + dy * CutHeight
    IN  [Min |-> Pt(x, y), Max |-> Pt(x + CutWidth, y + CutHeight)]

ScenarioDims == Dimensions(2, 2, 2, 3, FALSE, 16, 16, 0, 0)

(* C10: every frame f of every mode j of every entity i of a constructed    *)
(* Sheet is the SpriteWidth x SpriteHeight rectangle at                     *)
(*   x = origin.X + (i mod EntitiesPerRow)*columnsPerEntity*SpriteWidth + dx*SpriteWidth, *)
(*   y = origin.Y + (i div EntitiesPerRow)*rowsPerEntity*SpriteHeight + dy*SpriteHeight,  *)
(* with (columnsPerEntity, rowsPerEntity, dx, dy) =                         *)
(* (FramesPerAnimation, ModesPerEntity, f, j) if FramesRunRows, else        *)
(* (ModesPerEntity, FramesPerAnimation, j, f); in the 2x2-entity, 2-mode,   *)
(* 3-frame, 16x16 scenario at origin (0,0), entity 1 / mode 1 / frame 2 has *)
(* bounds (48,32)-(64,48).                                                  *)
C10_LayoutFormula ==
    SheetBuilt =>
        /\ \A i \in DOMAIN sheet.entities :
               \A j \in DOMAIN entityObj[sheet.entities[i]].modes :
                   LET m == entityObj[sheet.entities[i]].modes[j]
                   IN  /\ modeObj[m].spriteSize = [Min |-> Pt(0, 0), Max |-> Pt(CutWidth, CutHeight)]
                       /\ \A f \in 0..(FrameCount(m) - 1) :
                              modeObj[m].frames[f + 1] = LayoutRect(i, j, f)
        /\ (ctor.op = "NewSheet" /\ ctor.dims = ScenarioDims /\ ctor.img.Bounds.Min = Pt(0, 0)) =>
               modeObj[entityObj[sheet.entities[1]].modes[1]].frames[3]
                   = [Min |-> Pt(48, 32), Max |-> Pt(64, 48)]

\* C10 witness: the scenario's sheet, built, with the frame in question extracted
C10_Witness ==
    /\ SheetBuilt
    /\ ctor.op = "NewSheet"
    /\ ctor.dims = ScenarioDims
    /\ ctor.img.Bounds = [Min |-> Pt(0, 0), Max |-> Pt(64, 96)]
    /\ FrameCount(<<1, 1>>) = 3
    /\ modeObj[<<1, 1>>].frames[3].Min = Pt(48, 32)

---------------------------------------------------------------------------
(* Orientation: C11 *)

\* the same layout described the other way round: modes and frames change roles
SwapOrientation(d) ==
    [d EXCEPT !.FramesRunRows = ~d.FramesRunRows,
              !.ModesPerEntity = d.FramesPerAnimation,
              !.FramesPerAnimation = d.ModesPerEntity]

(* C11: a Sheet extracted by NewSheet with FramesRunRows = false,           *)
(* ModesPerEntity = a, FramesPerAnimation = b and the Sheet extracted from  *)
(* the same image with FramesRunRows = true, ModesPerEntity = b,            *)
(* FramesPerAnimation = a have, for every entity i, the same frame          *)
(* rectangles: frame f of mode j of the one is frame j of mode f of the     *)
(* other (and the other way round).                                         *)
C11_OrientationInvariance ==
    (SheetBuilt /\ ctor.op = "NewSheet") =>
        LET other == NewSheet(ctor.img, SwapOrientation(ctor.dims))
        IN  /\ ~other.err /\ ~other.panics
            /\ DOMAIN other.sheet.entities = DOMAIN sheet.entities
            /\ \A i \in DOMAIN sheet.entities :
                   /\ \A j \in 0..(ctor.dims.ModesPerEntity - 1), f \in 0..(ctor.dims.FramesPerAnimation - 1) :
                          modeObj[entityObj[sheet.entities[i]].modes[j]].frames[f + 1]
                              = other.modeObj[other.entityObj[other.sheet.entities[i]].modes[f]].frames[j + 1]
                   /\ {modeObj[m].frames[f] : m \in {<<i, j>> : j \in 0..(ctor.dims.ModesPerEntity - 1)},
                                              f \in 1..ctor.dims.FramesPerAnimation}
                          = {other.modeObj[m].frames[f] :
                                 m \in {<<i, j>> : j \in 0..(ctor.dims.FramesPerAnimation - 1)},
                                 f \in 1..ctor.dims.ModesPerEntity}

\* C11 witness: a 2-mode, 3-frame sheet of 2x2 entities, modes as columns, cut from an image not at (0,0)
C11_Witness ==
    /\ SheetBuilt
    /\ ctor.op = "NewSheet"
    /\ ~ctor.dims.FramesRunRows
    /\ ctor.dims.ModesPerEntity = 2 /\ ctor.dims.FramesPerAnimation = 3
    /\ ctor.dims.EntitiesPerRow = 2 /\ ctor.dims.EntitiesPerColumn = 2
    /\ ctor.img.Bounds.Min = Pt(3, 5)
    /\ modeObj[<<3, 1>>].frames[3] = NewSheet(ctor.img, SwapOrientation(ctor.dims)).modeObj[<<3, 2>>].frames[2]

---------------------------------------------------------------------------
(* Rejected constructions: C12, C13, C14 *)

Constructed == ctor.op # "none"

\* the image size the spec asks for: EntitiesPerRow * columnsPerEntity * SpriteWidth, and likewise the height
WidthAsked(d) ==
    d.EntitiesPerRow * (IF d.FramesRunRows THEN d.FramesPerAnimation ELSE d.ModesPerEntity) * d.SpriteWidth

HeightAsked(d) ==
    d.EntitiesPerColumn * (IF d.FramesRunRows THEN d.ModesPerEntity ELSE d.FramesPerAnimation) * d.SpriteHeight

FieldsPositive(d) ==
    /\ d.EntitiesPerRow > 0 /\ d.EntitiesPerColumn > 0 /\ d.ModesPerEntity > 0
    /\ d.FramesPerAnimation > 0 /\ d.SpriteWidth > 0 /\ d.SpriteHeight > 0

\* how many entity entries the caller supplied, and the longest mode-name list supplied
EntriesGiven ==
    CASE ctor.op = "NewSheetWithNames" -> Len(ctor.names)
      [] ctor.op \in {"NewSheetWithEntityNames", "NewSheetWithEntityAndSharedModeNames"} -> Len(ctor.entityNames)
      [] OTHER -> 0

LongestModeList ==
    CASE ctor.op = "NewSheetWithNames" ->
             IF ctor.names = <<>> THEN 0
             ELSE CHOOSE n \in {Len(ctor.names[k].ModeNames) : k \in DOMAIN ctor.names} :
                      \A k \in DOMAIN ctor.names : Len(ctor.names[k].ModeNames) <= n
      [] ctor.op = "NewSheetWithEntityAndSharedModeNames" -> Len(ctor.modeNames)
      [] OTHER -> 0

NamesFit ==
    /\ EntriesGiven <= ctor.dims.EntitiesPerRow * ctor.dims.EntitiesPerColumn
    /\ LongestModeList <= ctor.dims.ModesPerEntity

\* no resize asked for, or one that keeps the aspect ratio
ResizeFine ==
    \/ ~(ctor.dims.ResizeWidth > 0 /\ ctor.dims.ResizeWidth # ctor.dims.SpriteWidth)
    \/ ctor.dims.ResizeWidth * ctor.dims.SpriteHeight = ctor.dims.ResizeHeight * ctor.dims.SpriteWidth

(* C12: every constructor returns an error and no Sheet, without            *)
(* panicking, when one of EntitiesPerRow, EntitiesPerColumn, ModesPerEntity,*)
(* FramesPerAnimation, SpriteWidth, SpriteHeight is <= 0 or the image is    *)
(* not EntitiesPerRow*columnsPerEntity*SpriteWidth wide and                 *)
(* EntitiesPerColumn*rowsPerEntity*SpriteHeight high (so for a 63x96 image  *)
(* in the 64x96 scenario); with positive fields, an image of exactly that   *)
(* size and names that fit (and no resize that changes the aspect ratio)    *)
(* it returns a Sheet and no error.                                         *)
C12_DimensionValidation ==
    Constructed =>
        LET d == ctor.dims
            b == ctor.img.Bounds
            sizeFits == Dx(b) = WidthAsked(d) /\ Dy(b) = HeightAsked(d)
        IN  /\ (~FieldsPositive(d) \/ ~sizeFits) => (ctor.err /\ ~ctor.panics /\ sheet.nil)
            /\ (FieldsPositive(d) /\ sizeFits /\ NamesFit /\ ResizeFine) =>
                   (~ctor.err /\ ~ctor.panics /\ SheetBuilt)
            /\ (d = ScenarioDims /\ b = Rect(0, 0, 63, 96)) => (ctor.err /\ sheet.nil)

\* C12 witness: a named constructor refused the scenario's layout for a 63x96 image
C12_Witness ==
    /\ ctor.op = "NewSheetWithNames"
    /\ ctor.dims = ScenarioDims
    /\ ctor.img.Bounds = Rect(0, 0, 63, 96)
    /\ Len(ctor.names) = 4
    /\ ctor.err /\ sheet.nil

NamedConstructors ==
    {"NewSheetWithEntityNames", "NewSheetWithEntityAndSharedModeNames", "NewSheetWithNames"}

(* C13: NewSheetWithEntityNames, NewSheetWithEntityAndSharedModeNames and   *)
(* NewSheetWithNames called with more entity entries than                   *)
(* EntitiesPerRow * EntitiesPerColumn return an error and a nil Sheet and   *)
(* do not panic.                                                            *)
C13_EntityNameOverflow ==
    (ctor.op \in NamedConstructors
        /\ EntriesGiven > ctor.dims.EntitiesPerRow * ctor.dims.EntitiesPerColumn) =>
            (ctor.err /\ ~ctor.panics /\ sheet.nil)

\* C13 witness: five entries for a valid 2x2 sheet were refused by NewSheetWithNames
C13_Witness ==
    /\ ctor.op = "NewSheetWithNames"
    /\ FieldsPositive(ctor.dims)
    /\ ctor.dims.EntitiesPerRow = 2 /\ ctor.dims.EntitiesPerColumn = 2
    /\ Len(ctor.names) = 5
    /\ ctor.err /\ sheet.nil

(* C14: NewSheetWithNames called with valid dimensions, a fitting image and *)
(* no more entries than entities, but with a mode-name list longer than     *)
(* ModesPerEntity, returns a non-nil error and does not panic.              *)
C14_ModeNameOverflowReturnsError ==
    (ctor.op = "NewSheetWithNames"
        /\ FieldsPositive(ctor.dims)
        /\ Dx(ctor.img.Bounds) = WidthAsked(ctor.dims)
        /\ Dy(ctor.img.Bounds) = HeightAsked(ctor.dims)
        /\ EntriesGiven <= ctor.dims.EntitiesPerRow * ctor.dims.EntitiesPerColumn
        /\ LongestModeList > ctor.dims.ModesPerEntity) =>
            (ctor.err /\ ~ctor.panics)

---------------------------------------------------------------------------
(* Instances *)

\* Entity.NewInstance: the Instance (with its animation) or the error
NewInstance(e, initialMode, advanceEvery) ==
    IF initialMode \in DOMAIN entityObj[e].modes
    THEN IF advanceEvery <= 0
         THEN [err |-> TRUE, inst |-> [Entity |-> e, Mode |-> NoMode, running |-> FALSE,
                                       advanceEvery |-> 0, advanceCt |-> 0, currentFrame |-> 0]]
         ELSE [err |-> FALSE, inst |-> [Entity |-> e, Mode |-> entityObj[e].modes[initialMode],
                                        running |-> FALSE, advanceEvery |-> advanceEvery,
                                        advanceCt |-> 0, currentFrame |-> 0]]
    ELSE [err |-> TRUE, inst |-> [Entity |-> e, Mode |-> NoMode, running |-> FALSE,
                                  advanceEvery |-> 0, advanceCt |-> 0, currentFrame |-> 0]]

---------------------------------------------------------------------------
(* The shrink setters *)

Call(op, inst, ent, mode, n, name, err, panics, ret) ==
    [op |-> op, inst |-> inst, ent |-> ent, mode |-> mode, n |-> n, name |-> name,
     err |-> err, panics |-> panics, ret |-> ret]

\* for i := count; i < len(m); i++ { delete(m, i) }: len(m) is read again on every turn
RECURSIVE DeleteFrom(_, _)
DeleteFrom(m, i) == IF i < MapLen(m) THEN DeleteFrom(MapDelete(m, i), i + 1) ELSE m

\* the names whose index is >= count are deleted
KeepAll(nameToIndex, count) == nameToIndex

KeepBelow(nameToIndex, count) ==
    [n \in {x \in DOMAIN nameToIndex : nameToIndex[x] < count} |-> nameToIndex[n]]

EntityCountValid(count) == count > 0 /\ count <= MapLen(sheet.entities)

ModeCountValid(e, count) == count > 0 /\ count <= MapLen(entityObj[e].modes)

FrameCountValidNoLowerBound(m, count) == count <= Len(modeObj[m].frames)

FrameCountValidAllowingZero(m, count) == count >= 0 /\ count <= Len(modeObj[m].frames)

FrameCountValid(m, count) == count > 0 /\ count <= Len(modeObj[m].frames)

\* Sheet.SetEntityCount
SetEntityCount(count) ==
    /\ IF EntityCountValid(count)
       THEN sheet' = [sheet EXCEPT !.entityNamesToIndex = KeepBelow(@, count),
                                   !.entities = DeleteFrom(@, count)]
       ELSE sheet' = sheet
    /\ last' = Call("SetEntityCount", 0, -1, NoMode, count, "", ~EntityCountValid(count), FALSE, ZR)
    /\ streak' = NoStreak
    /\ UNCHANGED <<entityObj, modeObj, instances, ctor>>

\* Entity.SetModeCount
SetModeCount(e, count) ==
    /\ IF ModeCountValid(e, count)
       THEN entityObj' = [entityObj EXCEPT ![e].modeNamesToIndex = KeepBelow(@, count),
                                           ![e].modes = DeleteFrom(@, count)]
       ELSE entityObj' = entityObj
    /\ last' = Call("SetModeCount", 0, e, NoMode, count, "", ~ModeCountValid(e, count), FALSE, ZR)
    /\ streak' = NoStreak
    /\ UNCHANGED <<sheet, modeObj, instances, ctor>>

\* Mode.SetFrameCount
SetFrameCount(m, count) ==
    /\ IF FrameCountValid(m, count)
       THEN modeObj' = [modeObj EXCEPT ![m].frames = SubSeq(@, 1, count)]
       ELSE modeObj' = modeObj
    /\ last' = Call("SetFrameCount", 0, -1, m, count, "", ~FrameCountValid(m, count), FALSE, ZR)
    /\ streak' = NoStreak
    /\ UNCHANGED <<sheet, entityObj, instances, ctor>>

\* the entities and modes a caller gets from the Sheet
LiveEntities == {sheet.entities[i] : i \in DOMAIN sheet.entities}

LiveModes(e) == {entityObj[e].modes[j] : j \in DOMAIN entityObj[e].modes}

CallSetEntityCount == \E count \in -1..(MaxPerRow * MaxPerCol + 1) : SetEntityCount(count)

CallSetModeCount == \E e \in LiveEntities : \E count \in -1..(MaxModes + 1) : SetModeCount(e, count)

CallSetFrameCount ==
    \E e \in LiveEntities : \E m \in LiveModes(e) : \E count \in -1..(MaxFrames + 1) :
        SetFrameCount(m, count)

\* dimensions of the sheets that are then shrunk: at most MaxCells sprites
SmallDims ==
    {d \in ValidDims :
        /\ d.SpriteWidth = 2 /\ ~d.FramesRunRows
        /\ d.EntitiesPerRow * d.EntitiesPerColumn * d.ModesPerEntity * d.FramesPerAnimation <= MaxCells}

Returned(op, img, d, entityNames, modeNames, names, res) ==
    /\ sheet = res.sheet
    /\ entityObj = res.entityObj
    /\ modeObj = res.modeObj
    /\ instances = <<>>
    /\ ctor = [op |-> op, img |-> img, dims |-> d, entityNames |-> entityNames,
               modeNames |-> modeNames, names |-> names, err |-> res.err, panics |-> res.panics]
    /\ last = NoCall
    /\ streak = NoStreak

\* a Sheet as NewSheet or NewSheetWithEntityNames returned it
InitSheet ==
    \E d \in SmallDims :
        \/ Returned("NewSheet", PlainImage(d), d, <<>>, <<>>, <<>>, NewSheet(PlainImage(d), d))
        \/ \E n \in 1..Capacity(d) :
               Returned("NewSheetWithEntityNames", PlainImage(d), d, EntityNameList(n, FALSE), <<>>, <<>>,
                        NewSheetWithEntityNames(PlainImage(d), d, EntityNameList(n, FALSE)))

NextSheet ==
    \/ CallSetEntityCount
    \/ CallSetModeCount
    \/ CallSetFrameCount

\* a constructed Sheet under its shrink setters
SpecSheet == InitSheet /\ [][NextSheet]_vars

---------------------------------------------------------------------------
(* Shrinking: C5, C6, C7 *)

Setters == {"SetEntityCount", "SetModeCount", "SetFrameCount"}

\* the count the setter called in this step compares its argument with
CountBefore ==
    CASE last'.op = "SetEntityCount" -> EntityCount
      [] last'.op = "SetModeCount" -> ModeCount(last'.ent)
      [] last'.op = "SetFrameCount" -> FrameCount(last'.mode)
      [] OTHER -> 0

(* C5: SetEntityCount, SetModeCount and SetFrameCount called with a count   *)
(* <= 0 or greater than the current count return an error and change        *)
(* nothing: index maps, name maps, frame lists and counts stay as they were.*)
C5_RejectedShrinkChangesNothing ==
    [][(last'.op \in Setters /\ (last'.n <= 0 \/ last'.n > CountBefore)) =>
           (last'.err /\ UNCHANGED <<sheet, entityObj, modeObj>>)]_vars

\* C5 witness: a SetFrameCount just rejected a count above the frame count
C5_Witness ==
    /\ last.op = "SetFrameCount"
    /\ last.err
    /\ last.n > FrameCount(last.mode)
    /\ FrameCount(last.mode) >= 2

(* C6: after SetEntityCount(n) succeeds, EntityCount() = n,                 *)
(* GetEntityByIndex(i) succeeds exactly for 0 <= i < n, and GetEntityByName *)
(* fails for the name of every discarded entity.                            *)
C6_EntityShrinkDiscards ==
    (last.op = "SetEntityCount" /\ ~last.err) =>
        /\ EntityCount = last.n
        /\ \A i \in -1..(MaxPerRow * MaxPerCol + 1) :
               GetEntityByIndex(i).err <=> ~(0 <= i /\ i < last.n)
        /\ \A i \in DOMAIN entityObj :
               i >= last.n => GetEntityByName(entityObj[i].name).err

(* C7: after SetModeCount(n) succeeds on an Entity, ModeCount() = n and     *)
(* GetModeByIndex(i) and NewInstance(i, ...) (and so a mode switch by index,*)
(* which reads the same map) succeed exactly for 0 <= i < n.                *)
C7_ModeShrinkDiscards ==
    (last.op = "SetModeCount" /\ ~last.err) =>
        /\ ModeCount(last.ent) = last.n
        /\ \A i \in -1..(MaxModes + 1) :
               /\ GetModeByIndex(last.ent, i).err <=> ~(0 <= i /\ i < last.n)
               /\ NewInstance(last.ent, i, 1).err <=> ~(0 <= i /\ i < last.n)

---------------------------------------------------------------------------
(* The animation of an Instance *)

\* Go's % on ints (b # 0): the result has the sign of the dividend
GoMod(a, b) ==
    LET d == IF b < 0 THEN 0 - b ELSE b
    IN  IF a >= 0 THEN a % d ELSE 0 - ((0 - a) % d)

\* Mode.GetFrame on a frame list; a negative index passes the test and panics in the slice access
GetFrame(frames, index) ==
    IF index < Len(frames)
    THEN IF index < 0 THEN [frame |-> ZR, err |-> FALSE, panics |-> TRUE]
         ELSE [frame |-> frames[index + 1], err |-> FALSE, panics |-> FALSE]
    ELSE [frame |-> ZR, err |-> TRUE, panics |-> FALSE]

Panicked(a) == [anim |-> a, ret |-> ZR, panics |-> TRUE]

\* animation.Frame without the normalisation of line 52
FrameNotNormalised(a, frames) ==
    IF Len(frames) = 0 \/ a.advanceEvery = 0 THEN Panicked(a)
    ELSE LET g == GetFrame(frames, a.currentFrame)
         IN  IF g.err \/ g.panics THEN Panicked(a)
             ELSE IF a.running
                  THEN [anim |-> [a EXCEPT !.currentFrame =
                                               IF a.advanceCt = 0 THEN GoMod(a.currentFrame + 1, Len(frames))
                                               ELSE a.currentFrame,
                                           !.advanceCt = GoMod(a.advanceCt + 1, a.advanceEvery)],
                        ret |-> g.frame, panics |-> FALSE]
                  ELSE [anim |-> a, ret |-> g.frame, panics |-> FALSE]

\* animation.Frame advancing whether running or not
FrameIgnoringRunning(a, frames) ==
    IF Len(frames) = 0 \/ a.advanceEvery = 0 THEN Panicked(a)
    ELSE LET cf == GoMod(a.currentFrame, Len(frames))
             g == GetFrame(frames, cf)
         IN  IF g.err \/ g.panics THEN Panicked(a)
             ELSE [anim |-> [a EXCEPT !.currentFrame =
                                          IF a.advanceCt = 0 THEN GoMod(cf + 1, Len(frames)) ELSE cf,
                                      !.advanceCt = GoMod(a.advanceCt + 1, a.advanceEvery)],
                   ret |-> g.frame, panics |-> FALSE]

\* animation.Frame resetting the cadence counter one call late (% (advanceEvery + 1))
FrameLongCycle(a, frames) ==
    IF Len(frames) = 0 \/ a.advanceEvery = 0 THEN Panicked(a)
    ELSE LET cf == GoMod(a.currentFrame, Len(frames))
             g == GetFrame(frames, cf)
         IN  IF g.err \/ g.panics THEN Panicked(a)
             ELSE IF a.running
                  THEN [anim |-> [a EXCEPT !.currentFrame =
                                               IF a.advanceCt = 0 THEN GoMod(cf + 1, Len(frames)) ELSE cf,
                                           !.advanceCt = GoMod(a.advanceCt + 1, a.advanceEvery + 1)],
                        ret |-> g.frame, panics |-> FALSE]
                  ELSE [anim |-> [a EXCEPT !.currentFrame = cf], ret |-> g.frame, panics |-> FALSE]

\* animation.Frame moving on by two frames
FrameSkipping(a, frames) ==
    IF Len(frames) = 0 \/ a.advanceEvery = 0 THEN Panicked(a)
    ELSE LET cf == GoMod(a.currentFrame, Len(frames))
             g == GetFrame(frames, cf)
         IN  IF g.err \/ g.panics THEN Panicked(a)
             ELSE IF a.running
                  THEN [anim |-> [a EXCEPT !.currentFrame =
                                               IF a.advanceCt = 0 THEN GoMod(cf + 2, Len(frames)) ELSE cf,
                                           !.advanceCt = GoMod(a.advanceCt + 1, a.advanceEvery)],
                        ret |-> g.frame, panics |-> FALSE]
                  ELSE [anim |-> [a EXCEPT !.currentFrame = cf], ret |-> g.frame, panics |-> FALSE]

(* animation.Frame on animation a whose Mode holds `frames`: the animation  *)
(* afterwards, the Sprite returned, or a panic (panic(err), or the runtime  *)
(* panic of a division by zero). A panic keeps what the lines before it     *)
(* assigned: line 52 divides by the frame count before anything is written, *)
(* GetFrame panics after currentFrame was reduced, and line 64 divides by   *)
(* advanceEvery after currentFrame and advanceCt were stepped.              *)
FrameOf(a, frames) ==
    IF Len(frames) = 0 THEN Panicked(a)
    ELSE LET cf == GoMod(a.currentFrame, Len(frames))
             reduced == [a EXCEPT !.currentFrame = cf]
             g == GetFrame(frames, cf)
             stepped == [reduced EXCEPT !.currentFrame =
                                            IF a.advanceCt = 0 THEN GoMod(cf + 1, Len(frames)) ELSE cf,
                                        !.advanceCt = a.advanceCt + 1]
         IN  IF g.err \/ g.panics THEN Panicked(reduced)
             ELSE IF a.running
                  THEN IF a.advanceEvery = 0 THEN Panicked(stepped)
                       ELSE [anim |-> [stepped EXCEPT !.advanceCt = GoMod(@, a.advanceEvery)],
                             ret |-> g.frame, panics |-> FALSE]
                  ELSE [anim |-> reduced, ret |-> g.frame, panics |-> FALSE]

\* the longest run of Frame() calls that is counted; StreakCap stands for "more"
StreakCap == MaxFrames * MaxEvery + 2

\* a run of Frame() calls starts: nothing but Frame() on Instance k continues it
\* (a run that starts with StopAnimation remembers whether the animation was running before it)
StartStreak(k, after, a) ==
    [inst |-> k, after |-> after, calls |-> 0, first |-> ZR,
     cf0 |-> a.currentFrame, ct0 |-> a.advanceCt,
     wasRunning |-> after = "Stop" /\ instances[k].running]

AfterFrame(k, r) ==
    IF streak.inst = k /\ ~r.panics
    THEN [streak EXCEPT !.calls = Min(@ + 1, StreakCap),
                        !.first = IF streak.calls = 0 THEN r.ret ELSE @]
    ELSE NoStreak

FrameAdvancingAll(k) ==
    LET r == FrameOf(instances[k], modeObj[instances[k].Mode].frames)
    IN  /\ instances' = [i \in DOMAIN instances |->
                             IF i = k THEN r.anim
                             ELSE FrameOf(instances[i], modeObj[instances[i].Mode].frames).anim]
        /\ last' = Call("Frame", k, -1, instances[k].Mode, 0, "", FALSE, r.panics, r.ret)
        /\ streak' = AfterFrame(k, r)
        /\ UNCHANGED <<sheet, entityObj, modeObj, ctor>>

\* Instance k's Frame()
Frame(k) ==
    LET r == FrameOf(instances[k], modeObj[instances[k].Mode].frames)
    IN  /\ instances' = [instances EXCEPT ![k] = r.anim]
        /\ last' = Call("Frame", k, -1, instances[k].Mode, 0, "", FALSE, r.panics, r.ret)
        /\ streak' = AfterFrame(k, r)
        /\ UNCHANGED <<sheet, entityObj, modeObj, ctor>>

(* animation.Advance; a panic keeps what the lines before it assigned: line *)
(* 79 divides by the frame count before anything is written, line 86 by     *)
(* advanceEvery after currentFrame and advanceCt were stepped               *)
AdvanceOf(a, frames) ==
    IF ~a.running THEN [anim |-> a, panics |-> FALSE]
    ELSE IF Len(frames) = 0 THEN [anim |-> a, panics |-> TRUE]
    ELSE LET cf == GoMod(a.currentFrame, Len(frames))
             stepped == [a EXCEPT !.currentFrame =
                                      IF a.advanceCt = 0 THEN GoMod(cf + 1, Len(frames)) ELSE cf,
                                  !.advanceCt = a.advanceCt + 1]
         IN  IF a.advanceEvery = 0 THEN [anim |-> stepped, panics |-> TRUE]
             ELSE [anim |-> [stepped EXCEPT !.advanceCt = GoMod(@, a.advanceEvery)],
                   panics |-> FALSE]

(* Instance k's FrameResized(w, h): Frame(), then the external              *)
(* ResizeMaintain on the frame returned (an *image.RGBA cut from the        *)
(* sheet); the Sprite returned is a new image, recorded by its bounds       *)
FrameResized(k, w, h) ==
    LET r == FrameOf(instances[k], modeObj[instances[k].Mode].frames)
        resized == IF r.panics THEN ZR
                   ELSE ResizeMaintain(Image(r.ret, {}, TRUE), w, h).Bounds
    IN  /\ instances' = [instances EXCEPT ![k] = r.anim]
        /\ last' = Call("FrameResized", k, -1, instances[k].Mode, w, "", FALSE, r.panics, resized)
        /\ streak' = NoStreak
        /\ UNCHANGED <<sheet, entityObj, modeObj, ctor>>

Advance(k) ==
    LET r == AdvanceOf(instances[k], modeObj[instances[k].Mode].frames)
    IN  /\ instances' = [instances EXCEPT ![k] = r.anim]
        /\ last' = Call("Advance", k, -1, instances[k].Mode, 0, "", FALSE, r.panics, ZR)
        /\ streak' = NoStreak
        /\ UNCHANGED <<sheet, entityObj, modeObj, ctor>>

\* a method of the animation that only assigns its fields
NoBefore ==
    [running |-> FALSE, hadFrame |-> FALSE, frame |-> ZR,
     afterStop |-> FALSE, stoppedFrames |-> 0, cf0 |-> 0, ct0 |-> 0, wasRunning |-> FALSE]

\* what a StartAnimation or ResumeAnimation call came after: for StartAnimation, whether the
\* animation was running and the frame Frame() had just returned, if that was the call before;
\* for ResumeAnimation, the StopAnimation it undoes, if only Frame() calls lie between the two
Before(k, op) ==
    IF op = "StartAnimation"
    THEN [NoBefore EXCEPT !.running = instances[k].running,
                          !.hadFrame = last.op = "Frame" /\ last.inst = k /\ ~last.panics,
                          !.frame = IF last.op = "Frame" /\ last.inst = k /\ ~last.panics
                                    THEN last.ret ELSE ZR]
    ELSE IF op = "ResumeAnimation" /\ streak.inst = k /\ streak.after = "Stop"
    THEN [NoBefore EXCEPT !.afterStop = TRUE, !.stoppedFrames = Min(streak.calls, 2),
                          !.cf0 = streak.cf0, !.ct0 = streak.ct0,
                          !.wasRunning = streak.wasRunning]
    ELSE NoBefore

\* the record of a control call: as Call, with what the call came after
ControlCall(op, k) ==
    [op |-> op, inst |-> k, ent |-> -1, mode |-> instances[k].Mode, n |-> 0, name |-> "",
     err |-> FALSE, panics |-> FALSE, ret |-> ZR, before |-> Before(k, op)]

Control(k, op, a, streakAfter) ==
    /\ instances' = [instances EXCEPT ![k] = a]
    /\ last' = ControlCall(op, k)
    /\ streak' = streakAfter
    /\ UNCHANGED <<sheet, entityObj, modeObj, ctor>>

StartAnimationFromZero(k) ==
    LET a == [instances[k] EXCEPT !.advanceCt = 0, !.currentFrame = 0, !.running = TRUE]
    IN  Control(k, "StartAnimation", a, StartStreak(k, "Start", a))

StartAnimation(k) ==
    LET a == [instances[k] EXCEPT !.advanceCt = 0, !.running = TRUE]
    IN  Control(k, "StartAnimation", a, StartStreak(k, "Start", a))

ResumeAnimation(k) ==
    Control(k, "ResumeAnimation", [instances[k] EXCEPT !.running = TRUE], NoStreak)

RestartAnimationKeepingFrame(k) ==
    LET a == [instances[k] EXCEPT !.advanceCt = 0, !.running = TRUE]
    IN  Control(k, "RestartAnimation", a, StartStreak(k, "Restart", a))

RestartAnimation(k) ==
    LET a == [instances[k] EXCEPT !.advanceCt = 0, !.currentFrame = 0, !.running = TRUE]
    IN  Control(k, "RestartAnimation", a, StartStreak(k, "Restart", a))

ResetAnimation(k) ==
    LET a == [instances[k] EXCEPT !.advanceCt = 0, !.currentFrame = 0, !.running = FALSE]
    IN  Control(k, "ResetAnimation", a, StartStreak(k, "Reset", a))

StopAnimationResettingCadence(k) ==
    LET a == [instances[k] EXCEPT !.advanceCt = 0, !.running = FALSE]
    IN  Control(k, "StopAnimation", a, StartStreak(k, "Stop", a))

StopAnimation(k) ==
    LET a == [instances[k] EXCEPT !.running = FALSE]
    IN  Control(k, "StopAnimation", a, StartStreak(k, "Stop", a))

\* animation.NextFrameDiff
NextFrameDiff(a, frames) == a.running /\ a.advanceCt = 0 /\ Len(frames) > 0

\* animation.SetAdvanceEvery
SetAdvanceEvery(k, ct) ==
    /\ instances' = [instances EXCEPT ![k].advanceEvery = IF ct <= 0 THEN @ ELSE ct]
    /\ last' = Call("SetAdvanceEvery", k, -1, instances[k].Mode, ct, "", ct <= 0, FALSE, ZR)
    /\ streak' = NoStreak
    /\ UNCHANGED <<sheet, entityObj, modeObj, ctor>>

SetModeByIndexRewinding(k, index) ==
    LET e == instances[k].Entity
        ok == index \in DOMAIN entityObj[e].modes
    IN  /\ instances' = [instances EXCEPT ![k] = IF ok THEN [@ EXCEPT !.Mode = entityObj[e].modes[index],
                                                                     !.currentFrame = 0]
                                                 ELSE @]
        /\ last' = Call("SetModeByIndex", k, e, instances[k].Mode, index, "", ~ok, FALSE, ZR)
        /\ streak' = NoStreak
        /\ UNCHANGED <<sheet, entityObj, modeObj, ctor>>

\* Instance.SetModeByIndex
SetModeByIndex(k, index) ==
    LET e == instances[k].Entity
        ok == index \in DOMAIN entityObj[e].modes
    IN  /\ instances' = [instances EXCEPT ![k].Mode = IF ok THEN entityObj[e].modes[index] ELSE @]
        /\ last' = Call("SetModeByIndex", k, e, instances[k].Mode, index, "", ~ok, FALSE, ZR)
        /\ streak' = NoStreak
        /\ UNCHANGED <<sheet, entityObj, modeObj, ctor>>

\* Instance.SetModeByName
SetModeByName(k, name) ==
    LET e == instances[k].Entity
        g == GetModeByName(e, name)
    IN  /\ instances' = [instances EXCEPT ![k].Mode = IF g.err \/ g.panics THEN @ ELSE g.ref]
        /\ last' = Call("SetModeByName", k, e, instances[k].Mode, 0, name, g.err, g.panics, ZR)
        /\ streak' = NoStreak
        /\ UNCHANGED <<sheet, entityObj, modeObj, ctor>>

Inst == DOMAIN instances

CallFrame == \E k \in Inst : Frame(k)

CallAdvance == \E k \in Inst : Advance(k)

CallFrameResized == \E k \in Inst : \E w \in {2, 4} : \E h \in {1, 2} : FrameResized(k, w, h)

CallStartAnimation == \E k \in Inst : StartAnimation(k)

CallResumeAnimation == \E k \in Inst : ResumeAnimation(k)

CallRestartAnimation == \E k \in Inst : RestartAnimation(k)

CallResetAnimation == \E k \in Inst : ResetAnimation(k)

CallStopAnimation == \E k \in Inst : StopAnimation(k)

CallSetAdvanceEvery == \E k \in Inst : \E ct \in -1..MaxEvery : SetAdvanceEvery(k, ct)

CallSetModeByIndex == \E k \in Inst : \E index \in -1..MaxModes : SetModeByIndex(k, index)

CallSetModeByName == \E k \in Inst : \E name \in {"Mode" \o Itoa(j) : j \in 0..MaxModes} : SetModeByName(k, name)

\* the drawing PlaceSprite does on the canvas: the routine, the operator, the source
PlaceCall(k, canvasIsCCSL, r, opaque) ==
    [op |-> "PlaceSprite", inst |-> k, ent |-> -1, mode |-> instances[k].Mode, n |-> 0, name |-> "",
     err |-> FALSE, panics |-> r.panics, ret |-> r.ret,
     draw |-> IF r.panics THEN "none"
              ELSE IF opaque THEN (IF canvasIsCCSL THEN "PlaceAtPoint" ELSE "draw.Src")
              ELSE "draw.Over"]

PlaceSpriteAlwaysOverwriting(k, canvasIsCCSL) ==
    LET r == FrameOf(instances[k], modeObj[instances[k].Mode].frames)
    IN  /\ instances' = [instances EXCEPT ![k] = r.anim]
        /\ last' = PlaceCall(k, canvasIsCCSL, r, TRUE)
        /\ streak' = NoStreak
        /\ UNCHANGED <<sheet, entityObj, modeObj, ctor>>

\* Instance.PlaceSprite: one Frame() query, then the drawing chosen by the active Mode's flag
PlaceSprite(k, canvasIsCCSL) ==
    LET r == FrameOf(instances[k], modeObj[instances[k].Mode].frames)
    IN  /\ instances' = [instances EXCEPT ![k] = r.anim]
        /\ last' = PlaceCall(k, canvasIsCCSL, r, modeObj[instances[k].Mode].fullyOpaque)
        /\ streak' = NoStreak
        /\ UNCHANGED <<sheet, entityObj, modeObj, ctor>>

CallPlaceSprite == \E k \in Inst : \E canvasIsCCSL \in BOOLEAN : PlaceSprite(k, canvasIsCCSL)

\* the sheets animated: one entity
AnimDims == {d \in SmallDims : d.EntitiesPerRow = 1 /\ d.EntitiesPerColumn = 1}

\* Entity.NewInstanceWithModeName
NewInstanceWithModeName(e, initialMode, advanceEvery) ==
    IF initialMode \in DOMAIN entityObj[e].modeNamesToIndex
    THEN LET r == NewInstance(e, entityObj[e].modeNamesToIndex[initialMode], advanceEvery)
         IN  [err |-> FALSE, panics |-> r.err, inst |-> r.inst]
    ELSE [err |-> TRUE, panics |-> FALSE, inst |-> NewInstance(e, -1, advanceEvery).inst]

\* the caller keeps the Instance a factory returned
FactoryCall(op, k, e, mode, n, name, advanceEvery, err, panics) ==
    [op |-> op, inst |-> k, ent |-> e, mode |-> mode, n |-> n, name |-> name,
     err |-> err, panics |-> panics, ret |-> ZR, every |-> advanceEvery]

Instantiate(op, e, n, name, advanceEvery, r, panics) ==
    LET made == ~r.err /\ ~panics
        k == Len(instances) + 1
    IN  /\ instances' = IF made THEN Append(instances, r.inst) ELSE instances
        /\ last' = FactoryCall(op, IF made THEN k ELSE 0, e, r.inst.Mode, n, name, advanceEvery,
                               r.err, panics)
        /\ streak' = IF made THEN StartStreak(k, "New", r.inst) ELSE NoStreak
        /\ UNCHANGED <<sheet, entityObj, modeObj, ctor>>

ModeNamesTried == {"Mode" \o Itoa(j) : j \in 0..MaxModes}

\* one Instance is created and then used
CallNewInstance ==
    /\ instances = <<>>
    /\ \E e \in LiveEntities : \E initialMode \in -1..MaxModes : \E advanceEvery \in -1..MaxEvery :
           Instantiate("NewInstance", e, initialMode, "", advanceEvery,
                       NewInstance(e, initialMode, advanceEvery), FALSE)

CallNewInstanceWithModeName ==
    /\ instances = <<>>
    /\ \E e \in LiveEntities : \E initialMode \in ModeNamesTried : \E advanceEvery \in -1..MaxEvery :
           LET r == NewInstanceWithModeName(e, initialMode, advanceEvery)
           IN  Instantiate("NewInstanceWithModeName", e, 0, initialMode, advanceEvery, r, r.panics)

\* two Instances are created, the second while the first is in use
CallNewInstanceAgain ==
    /\ Len(instances) < 2
    /\ \E e \in LiveEntities : \E initialMode \in -1..MaxModes : \E advanceEvery \in 0..MaxPairEvery :
           Instantiate("NewInstance", e, initialMode, "", advanceEvery,
                       NewInstance(e, initialMode, advanceEvery), FALSE)

\* a Sheet of one entity, as NewSheet returned it
InitAnim ==
    \E d \in AnimDims :
        Returned("NewSheet", PlainImage(d), d, <<>>, <<>>, <<>>, NewSheet(PlainImage(d), d))

NextAnim ==
    \/ CallNewInstance
    \/ CallNewInstanceWithModeName
    \/ CallFrame
    \/ CallFrameResized
    \/ CallAdvance
    \/ CallStartAnimation
    \/ CallResumeAnimation
    \/ CallRestartAnimation
    \/ CallResetAnimation
    \/ CallStopAnimation
    \/ CallSetAdvanceEvery
    \/ CallSetModeByIndex
    \/ CallSetModeByName
    \/ CallSetFrameCount

\* an Instance playing, with mode switches and frame-count shrinks interleaved
SpecAnim == InitAnim /\ [][NextAnim]_vars

\* the sheets on which two Instances play
PairDims == {d \in AnimDims : d.ModesPerEntity <= 2 /\ d.FramesPerAnimation = 2 /\ d.SpriteHeight = 1}

InitPair ==
    \E d \in PairDims :
        Returned("NewSheet", PlainImage(d), d, <<>>, <<>>, <<>>, NewSheet(PlainImage(d), d))

CallSetAdvanceEveryOfPair == \E k \in Inst : \E ct \in 0..MaxPairEvery : SetAdvanceEvery(k, ct)

NextPair ==
    \/ CallNewInstanceAgain
    \/ CallFrame
    \/ CallAdvance
    \/ CallPlaceSprite
    \/ CallStartAnimation
    \/ CallResumeAnimation
    \/ CallRestartAnimation
    \/ CallResetAnimation
    \/ CallStopAnimation
    \/ CallSetAdvanceEveryOfPair
    \/ CallSetModeByIndex
    \/ CallSetModeByName

\* two Instances of one Entity playing side by side
SpecPair == InitPair /\ [][NextPair]_vars

\* Mode.GetFrame called on a Mode, and Instance.GetFrame, which hands the call to the active Mode
GetFrameOn(k, m, index) ==
    LET g == GetFrame(modeObj[m].frames, index)
    IN  /\ last' = Call("GetFrame", k, -1, m, index, "", g.err, g.panics, g.frame)
        /\ streak' = NoStreak
        /\ UNCHANGED <<sheet, entityObj, modeObj, instances, ctor>>

CallModeGetFrame ==
    \E e \in LiveEntities : \E m \in LiveModes(e) : \E index \in -2..MaxFrames : GetFrameOn(0, m, index)

CallInstanceGetFrame ==
    \E k \in Inst : \E index \in -2..MaxFrames : GetFrameOn(k, instances[k].Mode, index)

\* the sheet drawn from: one entity of two modes of two frames, 2x1 sprites
PlaceDims == Dimensions(1, 1, 2, 2, FALSE, 2, 1, 0, 0)

\* its images: opaque, or with transparent pixels in one mode or in both, or not an RGBA
PlaceImages ==
    {Image(Rect(0, 0, 4, 2), clear, TRUE) :
         clear \in {{}, {Pt(0, 0)}, {Pt(1, 1)}, {Pt(3, 1)}, {Pt(0, 1), Pt(2, 0)}}}
    \cup {Image(Rect(1, 1, 5, 3), {}, FALSE), Image(Rect(0, 0, 4, 2), {Pt(2, 1)}, FALSE)}

InitPlace ==
    \E img \in PlaceImages :
        Returned("NewSheet", img, PlaceDims, <<>>, <<>>, <<>>, NewSheet(img, PlaceDims))

NextPlace ==
    \/ CallNewInstance
    \/ CallStartAnimation
    \/ CallStopAnimation
    \/ CallFrame
    \/ CallPlaceSprite
    \/ CallModeGetFrame
    \/ CallInstanceGetFrame
    \/ CallSetFrameCount
    \/ CallSetModeByIndex
    \/ CallSetModeByName

\* an Instance placed on a canvas, with mode switches and frame-count shrinks interleaved
SpecPlace == InitPlace /\ [][NextPlace]_vars

---------------------------------------------------------------------------
(* Renames and lookups *)

\* the record of a rename: as Call, with the old name kept beside the new one
RenameCall(op, ent, mode, oldName, newName, err, panics) ==
    [op |-> op, inst |-> 0, ent |-> ent, mode |-> mode, n |-> 0, name |-> newName,
     err |-> err, panics |-> panics, ret |-> ZR, old |-> oldName]

\* Sheet.RenameEntity
RenameEntity(oldName, newName) ==
    LET names == sheet.entityNamesToIndex
        found == oldName \in DOMAIN names
        ok == found /\ names[oldName] \in DOMAIN sheet.entities
        e == IF ok THEN sheet.entities[names[oldName]] ELSE -1
    IN  /\ IF ok
           THEN /\ entityObj' = [entityObj EXCEPT ![e].name = newName]
                /\ sheet' = [sheet EXCEPT !.entityNamesToIndex =
                                              MapDelete(MapPut(names, newName, names[oldName]), oldName)]
           ELSE UNCHANGED <<entityObj, sheet>>
        /\ last' = RenameCall("RenameEntity", e, NoMode, oldName, newName, ~found, found /\ ~ok)
        /\ streak' = NoStreak
        /\ UNCHANGED <<modeObj, instances, ctor>>

\* Entity.RenameMode
RenameMode(e, oldName, newName) ==
    LET names == entityObj[e].modeNamesToIndex
        found == oldName \in DOMAIN names
        ok == found /\ names[oldName] \in DOMAIN entityObj[e].modes
        m == IF ok THEN entityObj[e].modes[names[oldName]] ELSE NoMode
    IN  /\ IF ok
           THEN /\ modeObj' = [modeObj EXCEPT ![m].name = newName]
                /\ entityObj' = [entityObj EXCEPT ![e].modeNamesToIndex =
                                                      MapDelete(MapPut(names, newName, names[oldName]), oldName)]
           ELSE UNCHANGED <<modeObj, entityObj>>
        /\ last' = RenameCall("RenameMode", e, m, oldName, newName, ~found, found /\ ~ok)
        /\ streak' = NoStreak
        /\ UNCHANGED <<sheet, instances, ctor>>

\* a lookup: nothing but its results
Lookup(op, ent, mode, n, name, r) ==
    /\ last' = Call(op, 0, ent, mode, n, name, r.err, r.panics, ZR)
    /\ streak' = NoStreak
    /\ UNCHANGED <<sheet, entityObj, modeObj, instances, ctor>>

\* the Entity a caller holds on to, also once the Sheet has dropped it: the last one created
HeldEntities == {e \in DOMAIN entityObj : e = MapLen(entityObj) - 1}

EntityNamesTried == {"GetEntity0", "GetEntity1", "GetEntity3", "Renamed", "Absent"}

EntityNamesGiven == {"Renamed", "GetEntity1"}

ModeNamesRenamedTo == {"Renamed", "Mode1"}

ModeNamesLooked == {"Mode0", "Mode1", "Renamed", "Absent"}

CallRenameEntity ==
    \E oldName \in EntityNamesTried, newName \in EntityNamesGiven : RenameEntity(oldName, newName)

CallRenameMode ==
    \E e \in HeldEntities : \E oldName \in ModeNamesLooked, newName \in ModeNamesRenamedTo :
        RenameMode(e, oldName, newName)

CallGetEntityByIndex ==
    \E idx \in -1..(MaxPerRow * MaxPerCol) :
        Lookup("GetEntityByIndex", GetEntityByIndex(idx).ref, NoMode, idx, "", GetEntityByIndex(idx))

CallGetEntityByName ==
    \E name \in EntityNamesTried :
        Lookup("GetEntityByName", GetEntityByName(name).ref, NoMode, 0, name, GetEntityByName(name))

CallGetModeByIndex ==
    \E e \in HeldEntities : \E idx \in -1..MaxModes :
        Lookup("GetModeByIndex", e, GetModeByIndex(e, idx).ref, idx, "", GetModeByIndex(e, idx))

CallGetModeByName ==
    \E e \in HeldEntities : \E name \in ModeNamesLooked :
        Lookup("GetModeByName", e, GetModeByName(e, name).ref, 0, name, GetModeByName(e, name))

CallSetModeByNameLooked == \E k \in Inst : \E name \in ModeNamesLooked : SetModeByName(k, name)

\* the sheets renamed: one frame per mode; several entities of one mode, or one entity of several modes
NameDims ==
    {d \in SmallDims :
        /\ d.FramesPerAnimation = 1
        /\ (d.EntitiesPerRow * d.EntitiesPerColumn = 1 \/ d.ModesPerEntity = 1)}

InitNames ==
    \E d \in NameDims :
        Returned("NewSheet", PlainImage(d), d, <<>>, <<>>, <<>>, NewSheet(PlainImage(d), d))

CallSetModeCountHeld == \E e \in HeldEntities : \E count \in -1..(MaxModes + 1) : SetModeCount(e, count)

NextNames ==
    \/ CallRenameEntity
    \/ CallRenameMode
    \/ CallSetEntityCount
    \/ CallSetModeCountHeld
    \/ CallGetEntityByName
    \/ CallGetModeByName

\* a constructed Sheet under renames, shrinks and lookups by name
SpecNames == InitNames /\ [][NextNames]_vars

NextLookup ==
    \/ CallSetEntityCount
    \/ CallSetModeCountHeld
    \/ CallGetEntityByIndex
    \/ CallGetEntityByName
    \/ CallGetModeByIndex
    \/ CallGetModeByName
    \/ CallNewInstance
    \/ CallNewInstanceWithModeName
    \/ CallSetModeByNameLooked

\* a constructed Sheet under lookups, Instance creation and shrinks
SpecLookup == InitNames /\ [][NextLookup]_vars

\* one Instance, advancing at every call
CallNewInstanceOnce ==
    /\ instances = <<>>
    /\ \E e \in LiveEntities : \E initialMode \in 0..1 :
           Instantiate("NewInstance", e, initialMode, "", 1, NewInstance(e, initialMode, 1), FALSE)

\* the sheets every kind of operation is run on: two frames per mode, one row of entities
OpsDims ==
    {d \in SmallDims : d.FramesPerAnimation = 2 /\ d.EntitiesPerColumn = 1 /\ d.ModesPerEntity <= 2
                          /\ d.SpriteHeight = 1}

InitOps ==
    \E d \in OpsDims :
        Returned("NewSheet", PlainImage(d), d, <<>>, <<>>, <<>>, NewSheet(PlainImage(d), d))

NextOps ==
    \/ CallSetEntityCount
    \/ CallSetModeCount
    \/ CallSetFrameCount
    \/ CallRenameEntity
    \/ CallRenameMode
    \/ CallNewInstanceOnce
    \/ CallRestartAnimation
    \/ CallFrame

\* a constructed Sheet under its public operations
SpecOps == InitOps /\ [][NextOps]_vars

---------------------------------------------------------------------------
(* Names: C15, C16 *)

(* C15: in every state reached from a constructed Sheet by RenameEntity,    *)
(* RenameMode, SetEntityCount, SetModeCount and lookups, every index in     *)
(* the Sheet's name map is a key of its entity map and every index in an    *)
(* Entity's name map is a key of its mode map; no call has taken a          *)
(* "corrupted" panic branch, and no lookup by name (GetEntityByName,        *)
(* GetModeByName, and so SetModeByName, which reads the same maps) can.     *)
C15_NameMapsConsistent ==
    /\ \A n \in DOMAIN sheet.entityNamesToIndex :
           sheet.entityNamesToIndex[n] \in DOMAIN sheet.entities
    /\ \A e \in DOMAIN entityObj :
           \A n \in DOMAIN entityObj[e].modeNamesToIndex :
               entityObj[e].modeNamesToIndex[n] \in DOMAIN entityObj[e].modes
    /\ ~last.panics
    /\ \A name \in EntityNamesTried : ~GetEntityByName(name).panics
    /\ \A e \in DOMAIN entityObj : \A name \in ModeNamesLooked : ~GetModeByName(e, name).panics

\* C15 witness: an entity was renamed after a shrink of the Sheet that left entity 3 behind
\* and after a mode of a held Entity was renamed
C15_Witness ==
    /\ last.op = "RenameEntity" /\ ~last.err
    /\ "Renamed" \in DOMAIN sheet.entityNamesToIndex
    /\ DOMAIN sheet.entities = {0, 3}
    /\ \E m \in DOMAIN modeObj : modeObj[m].name = "Renamed"

(* C16: RenameEntity(oldName, newName) with oldName present succeeds, and   *)
(* afterwards lookup by newName finds the entity lookup by oldName found    *)
(* before (also when newName = oldName), its Name() is newName, and when    *)
(* newName differs from oldName lookup by oldName fails; with oldName       *)
(* absent it returns an error and changes nothing.  Likewise RenameMode.    *)
C16_RenameMovesName ==
    [][/\ last'.op = "RenameEntity" =>
              LET before == GetEntityByName(last'.old)
                  names == sheet'.entityNamesToIndex
              IN  IF before.err
                  THEN last'.err /\ UNCHANGED <<sheet, entityObj, modeObj>>
                  ELSE /\ ~last'.err /\ ~last'.panics
                       /\ last'.name \in DOMAIN names
                       /\ names[last'.name] \in DOMAIN sheet'.entities
                       /\ sheet'.entities[names[last'.name]] = before.ref
                       /\ entityObj'[before.ref].name = last'.name
                       /\ last'.name # last'.old => last'.old \notin DOMAIN names
       /\ last'.op = "RenameMode" =>
              LET e == last'.ent
                  before == GetModeByName(e, last'.old)
                  names == entityObj'[e].modeNamesToIndex
              IN  IF before.err
                  THEN last'.err /\ UNCHANGED <<sheet, entityObj, modeObj>>
                  ELSE /\ ~last'.err /\ ~last'.panics
                       /\ last'.name \in DOMAIN names
                       /\ names[last'.name] \in DOMAIN entityObj'[e].modes
                       /\ entityObj'[e].modes[names[last'.name]] = before.ref
                       /\ modeObj'[before.ref].name = last'.name
                       /\ last'.name # last'.old => last'.old \notin DOMAIN names]_vars

---------------------------------------------------------------------------
(* Lookups: C17 *)

Lookups ==
    {"GetEntityByIndex", "GetEntityByName", "GetModeByIndex", "GetModeByName",
     "NewInstance", "NewInstanceWithModeName"}

(* C17: GetEntityByIndex, GetEntityByName, GetModeByIndex and GetModeByName *)
(* return the stored entity or mode and no error exactly when the index or  *)
(* name is present, and otherwise nil and an error; NewInstance and         *)
(* NewInstanceWithModeName with an absent initial mode return no Instance   *)
(* and an error; none of them changes the Sheet, an Entity or a Mode.       *)
C17_Lookup ==
    [][/\ last'.op \in Lookups => UNCHANGED <<sheet, entityObj, modeObj>>
       /\ last'.op = "GetEntityByIndex" =>
              IF last'.n \in DOMAIN sheet.entities
              THEN ~last'.err /\ ~last'.panics /\ last'.ent = sheet.entities[last'.n]
              ELSE last'.err /\ ~last'.panics /\ last'.ent = -1
       /\ last'.op = "GetEntityByName" =>
              IF last'.name \in DOMAIN sheet.entityNamesToIndex
              THEN /\ ~last'.err /\ ~last'.panics
                   /\ last'.ent = sheet.entities[sheet.entityNamesToIndex[last'.name]]
              ELSE last'.err /\ ~last'.panics /\ last'.ent = -1
       /\ last'.op = "GetModeByIndex" =>
              IF last'.n \in DOMAIN entityObj[last'.ent].modes
              THEN ~last'.err /\ ~last'.panics /\ last'.mode = entityObj[last'.ent].modes[last'.n]
              ELSE last'.err /\ ~last'.panics /\ last'.mode = NoMode
       /\ last'.op = "GetModeByName" =>
              IF last'.name \in DOMAIN entityObj[last'.ent].modeNamesToIndex
              THEN /\ ~last'.err /\ ~last'.panics
                   /\ last'.mode = entityObj[last'.ent].modes[entityObj[last'.ent].modeNamesToIndex[last'.name]]
              ELSE last'.err /\ ~last'.panics /\ last'.mode = NoMode
       /\ (last'.op = "NewInstance" /\ last'.n \notin DOMAIN entityObj[last'.ent].modes) =>
              (last'.err /\ ~last'.panics /\ instances' = instances)
       /\ (last'.op = "NewInstance" /\ ~last'.err) =>
              /\ instances' = Append(instances, instances'[last'.inst])
              /\ instances'[last'.inst].Entity = last'.ent
              /\ instances'[last'.inst].Mode = entityObj[last'.ent].modes[last'.n]
       /\ (last'.op = "NewInstanceWithModeName"
               /\ last'.name \notin DOMAIN entityObj[last'.ent].modeNamesToIndex) =>
              (last'.err /\ ~last'.panics /\ instances' = instances)]_vars

\* C17 witness: a mode name discarded by SetModeCount was looked up and not found
C17_Witness ==
    /\ last.op = "GetModeByName"
    /\ last.err
    /\ last.name = "Mode1"
    /\ last.mode = NoMode
    /\ ctor.dims.ModesPerEntity = 3
    /\ ModeCount(last.ent) < 3

---------------------------------------------------------------------------
(* Playback: C1, C2, C3, C4 *)

\* Instance k is in a run of Frame() calls that began right after one of `kinds`
InStreak(k, kinds) == streak.inst = k /\ streak.after \in kinds

ActiveFrames(k) == modeObj[instances[k].Mode].frames

(* C1: after StartAnimation() or RestartAnimation() on a running Instance   *)
(* with advanceEvery = N, the first N calls of Frame() return the same      *)
(* frame, and the current-frame index moves on only once N calls have been  *)
(* consumed.                                                                *)
C1_FrameAdvancesAfterFullCycle ==
    \A k \in Inst :
        (InStreak(k, {"Start", "Restart"}) /\ streak.calls >= 1) =>
            LET n == instances[k].advanceEvery
                fc == Len(ActiveFrames(k))
            IN  /\ streak.calls <= n => last.ret = streak.first
                /\ streak.calls < n => instances[k].currentFrame % fc = streak.cf0 % fc
                /\ streak.calls = n => instances[k].currentFrame % fc = (streak.cf0 + 1) % fc

(* C2: RestartAnimation() followed by exactly FrameCount()*advanceEvery     *)
(* Frame() calls brings the animation back to currentFrame = 0, cadence     *)
(* counter = 0, running; the call after that returns the frame the first    *)
(* call after RestartAnimation() returned.                                  *)
C2_RoundTrip ==
    \A k \in Inst :
        InStreak(k, {"Restart"}) =>
            LET n == instances[k].advanceEvery
                fc == Len(ActiveFrames(k))
            IN  /\ streak.calls = fc * n =>
                       /\ instances[k].currentFrame = 0
                       /\ instances[k].advanceCt = 0
                       /\ instances[k].running
                /\ streak.calls = fc * n + 1 => last.ret = streak.first

\* C2 witness: one call past a full round of a 3-frame mode played at advanceEvery 2
C2_Witness ==
    /\ InStreak(1, {"Restart"})
    /\ Len(ActiveFrames(1)) = 3
    /\ instances[1].advanceEvery = 2
    /\ streak.calls = 7
    /\ last.op = "Frame"

(* C3: Frame() calls that follow StopAnimation(), ResetAnimation() or the   *)
(* creation of the Instance, with nothing else in between, all return the   *)
(* same frame - the one at the current-frame index - and leave the          *)
(* animation stopped with the cadence counter and the current-frame index   *)
(* (normalised modulo the frame count) where they were.                     *)
C3_StoppedFrameIdempotent ==
    \A k \in Inst :
        (InStreak(k, {"Stop", "Reset", "New"}) /\ streak.calls >= 1) =>
            LET fc == Len(ActiveFrames(k))
            IN  /\ last.ret = streak.first
                /\ last.ret = ActiveFrames(k)[(streak.cf0 % fc) + 1]
                /\ ~instances[k].running
                /\ instances[k].advanceCt = streak.ct0
                /\ instances[k].currentFrame = streak.cf0 % fc

\* C3 witness: three Frame() calls after a StopAnimation() in the middle of a cadence cycle
C3_Witness ==
    /\ InStreak(1, {"Stop"})
    /\ streak.calls = 3
    /\ streak.ct0 >= 1
    /\ streak.cf0 >= 1
    /\ Len(ActiveFrames(1)) >= 2

(* C4: in every reachable state Frame() does not panic and returns the      *)
(* frame at index (currentFrame mod FrameCount()) of the active Mode, an    *)
(* index below the Mode's current frame count - also after SetFrameCount    *)
(* shrank the Mode.  A frame is identified by the place it was cut from.    *)
C4_FrameShrinkSafe ==
    [][\A k \in Inst :
           (last'.op = "Frame" /\ last'.inst = k) =>
               LET m == instances[k].Mode
                   f == instances[k].currentFrame % FrameCount(m)
               IN  /\ ~last'.panics
                   /\ FrameCount(m) >= 1
                   /\ f \in 0..(FrameCount(m) - 1)
                   /\ last'.ret = LayoutRect(m[1], m[2], f)
                   /\ instances'[k].currentFrame \in 0..(FrameCount(m) - 1)]_vars

\* C4 witness: a running Instance just got frame 0 from a Mode shrunk to a single frame
C4_Witness ==
    /\ last.op = "Frame"
    /\ ~last.panics
    /\ instances[last.inst].running
    /\ FrameCount(last.mode) = 1
    /\ ctor.dims.FramesPerAnimation = 3
    /\ last.ret = LayoutRect(last.mode[1], last.mode[2], 0)

---------------------------------------------------------------------------
(* Control calls: C18, C19, C20 *)

Factories == {"NewInstance", "NewInstanceWithModeName"}

(* C18: an Instance just created is stopped with currentFrame 0 and cadence *)
(* counter 0; StartAnimation(), from stopped or running, only sets running  *)
(* and zeroes the cadence counter, leaving currentFrame alone; the Frame()  *)
(* right after a StartAnimation() that came right after a Frame() of the    *)
(* stopped animation returns the frame that Frame() returned.               *)
C18_StartKeepsFrame ==
    [][\A k \in DOMAIN instances' :
           /\ (last'.op \in Factories /\ last'.inst = k) =>
                  /\ ~instances'[k].running
                  /\ instances'[k].currentFrame = 0
                  /\ instances'[k].advanceCt = 0
           /\ (last'.op = "StartAnimation" /\ last'.inst = k) =>
                  instances'[k] = [instances[k] EXCEPT !.running = TRUE, !.advanceCt = 0]
           /\ (last'.op = "Frame" /\ last'.inst = k
                   /\ last.op = "StartAnimation" /\ last.inst = k
                   /\ last.before.hadFrame /\ ~last.before.running) =>
                  (~last'.panics /\ last'.ret = last.before.frame)]_vars

\* C18 witness: a stopped animation past its first frame had Frame() called and was then started
C18_Witness ==
    /\ last.op = "StartAnimation"
    /\ last.before.hadFrame /\ ~last.before.running
    /\ instances[last.inst].currentFrame >= 1
    /\ instances[last.inst].running
    /\ instances[last.inst].advanceEvery >= 2
    /\ last.before.frame = ActiveFrames(last.inst)[instances[last.inst].currentFrame + 1]

(* C19: RestartAnimation() and ResetAnimation() set currentFrame and the    *)
(* cadence counter to zero whatever the state, Restart leaving the          *)
(* animation running and Reset leaving it stopped; the next Frame() returns *)
(* frame 0 of the active Mode.                                              *)
C19_RestartAndResetRewind ==
    [][\A k \in Inst :
           /\ (last'.op = "RestartAnimation" /\ last'.inst = k) =>
                  instances'[k] = [instances[k] EXCEPT !.currentFrame = 0, !.advanceCt = 0,
                                                       !.running = TRUE]
           /\ (last'.op = "ResetAnimation" /\ last'.inst = k) =>
                  instances'[k] = [instances[k] EXCEPT !.currentFrame = 0, !.advanceCt = 0,
                                                       !.running = FALSE]
           /\ (last'.op = "Frame" /\ last'.inst = k
                   /\ last.op \in {"RestartAnimation", "ResetAnimation"} /\ last.inst = k) =>
                  /\ ~last'.panics
                  /\ last'.ret = ActiveFrames(k)[1]
                  /\ last'.ret = LayoutRect(instances[k].Mode[1], instances[k].Mode[2], 0)]_vars

\* C19 witness: the Frame() after a ResetAnimation() returned frame 0 of a mode of several frames
C19_Witness ==
    /\ last.op = "Frame"
    /\ InStreak(last.inst, {"Reset"})
    /\ streak.calls = 1
    /\ Len(ActiveFrames(last.inst)) >= 2
    /\ last.ret = LayoutRect(last.mode[1], last.mode[2], 0)

(* C20: StopAnimation() only clears the running flag and ResumeAnimation()  *)
(* only sets it; after StopAnimation() on a running animation, any number   *)
(* of Frame() calls and ResumeAnimation(), the next Frame() returns the     *)
(* frame, and leaves the animation in the state, that it would have without *)
(* those calls, so every later sequence of frames is the same.              *)
(* StartAnimation() instead zeroes the cadence counter.                     *)
C20_StopResumeTransparent ==
    [][\A k \in Inst :
           /\ (last'.op = "StopAnimation" /\ last'.inst = k) =>
                  instances'[k] = [instances[k] EXCEPT !.running = FALSE]
           /\ (last'.op = "ResumeAnimation" /\ last'.inst = k) =>
                  instances'[k] = [instances[k] EXCEPT !.running = TRUE]
           /\ (last'.op = "ResumeAnimation" /\ last'.inst = k
                   /\ last'.before.afterStop /\ last'.before.wasRunning) =>
                  LET undisturbed == [instances'[k] EXCEPT !.currentFrame = last'.before.cf0,
                                                           !.advanceCt = last'.before.ct0]
                      frames == modeObj'[instances'[k].Mode].frames
                  IN  FrameOf(instances'[k], frames) = FrameOf(undisturbed, frames)
           /\ (last'.op = "StartAnimation" /\ last'.inst = k) => instances'[k].advanceCt = 0]_vars

\* C20 witness: an animation stopped in mid-cycle had Frame() called twice and was resumed
C20_Witness ==
    /\ last.op = "ResumeAnimation"
    /\ last.before.afterStop /\ last.before.wasRunning
    /\ last.before.stoppedFrames = 2
    /\ last.before.ct0 >= 1
    /\ instances[last.inst].advanceCt = last.before.ct0
    /\ instances[last.inst].currentFrame >= 1
    /\ instances[last.inst].running

---------------------------------------------------------------------------
(* Mode switches: C21 *)

Switches == {"SetModeByIndex", "SetModeByName"}

\* the Mode a switch asks for, when the Entity of Instance k has it
Asked(k, call) ==
    LET e == entityObj[instances[k].Entity]
    IN  IF call.op = "SetModeByIndex"
        THEN IF call.n \in DOMAIN e.modes THEN {e.modes[call.n]} ELSE {}
        ELSE IF call.name \in DOMAIN e.modeNamesToIndex
             THEN {e.modes[e.modeNamesToIndex[call.name]]}
             ELSE {}

(* C21: a SetModeByIndex or SetModeByName that succeeds changes only the    *)
(* active Mode of the Instance: running, currentFrame, the cadence counter  *)
(* and advanceEvery stay, and the next Frame() returns the new Mode's frame *)
(* at currentFrame mod its FrameCount(). A switch to an absent index or     *)
(* name returns an error and changes nothing of the Instance.               *)
C21_ModeSwitchIsPointerSwap ==
    [][\A k \in Inst :
           /\ (last'.op \in Switches /\ last'.inst = k) =>
                  /\ ~last'.panics
                  /\ last'.err <=> Asked(k, last') = {}
                  /\ ~last'.err =>
                         \E m \in Asked(k, last') : instances'[k] = [instances[k] EXCEPT !.Mode = m]
                  /\ last'.err => instances'[k] = instances[k]
                  /\ UNCHANGED <<sheet, entityObj, modeObj>>
           /\ (last'.op = "Frame" /\ last'.inst = k
                   /\ last.op \in Switches /\ last.inst = k /\ ~last.err) =>
                  /\ ~last'.panics
                  /\ last'.ret = ActiveFrames(k)[(instances[k].currentFrame % Len(ActiveFrames(k))) + 1]]_vars

\* C21 witness: a running animation was switched to a Mode too short for its currentFrame
C21_Witness ==
    /\ last.op \in Switches
    /\ ~last.err
    /\ last.mode # instances[last.inst].Mode
    /\ instances[last.inst].running
    /\ instances[last.inst].advanceCt >= 1
    /\ instances[last.inst].currentFrame >= Len(ActiveFrames(last.inst))

---------------------------------------------------------------------------
(* Cadence arguments: C22 *)

\* the initial mode a factory call names exists in the Entity
ModeExists(call) ==
    IF call.op = "NewInstance"
    THEN call.n \in DOMAIN entityObj[call.ent].modes
    ELSE call.name \in DOMAIN entityObj[call.ent].modeNamesToIndex

(* C22: SetAdvanceEvery(ct) with ct <= 0 returns an error and leaves        *)
(* advanceEvery as it was; NewInstance and NewInstanceWithModeName with an  *)
(* existing mode and n <= 0 return an error and no Instance, without        *)
(* panicking, and with n > 0 return an Instance whose AdvanceEvery() is n.  *)
C22_NonPositiveCadenceIsAnError ==
    [][/\ (last'.op = "SetAdvanceEvery" /\ last'.n <= 0) =>
              (last'.err /\ ~last'.panics /\ instances' = instances)
       /\ (last'.op \in Factories /\ ModeExists(last') /\ last'.every <= 0) =>
              (last'.err /\ ~last'.panics /\ instances' = instances)
       /\ (last'.op \in Factories /\ ModeExists(last') /\ last'.every > 0) =>
              /\ ~last'.err /\ ~last'.panics
              /\ last'.inst \in DOMAIN instances' \ DOMAIN instances
              /\ instances'[last'.inst].advanceEvery = last'.every]_vars

---------------------------------------------------------------------------
(* The frame-change predicate: C23 *)

Starts == {"StartAnimation", "RestartAnimation"}

(* C23: NextFrameDiff() is true exactly when the next Frame() will return a *)
(* frame different from the one the previous Frame() returned, or when the  *)
(* next Frame() will be the first since the animation was started or       *)
(* restarted; in every other state it is false.                             *)
C23_NextFrameDiffPredictsChange ==
    \A k \in Inst :
        LET a == instances[k]
            next == FrameOf(a, ActiveFrames(k))
        IN  /\ (last.op = "Frame" /\ last.inst = k /\ ~last.panics /\ ~next.panics) =>
                   (NextFrameDiff(a, ActiveFrames(k)) <=> next.ret # last.ret)
            /\ (last.op \in Starts /\ last.inst = k) => NextFrameDiff(a, ActiveFrames(k))

---------------------------------------------------------------------------
(* Independent playback: C24 *)

PlaybackOps ==
    {"StartAnimation", "ResumeAnimation", "RestartAnimation", "ResetAnimation", "StopAnimation",
     "Frame", "Advance", "PlaceSprite", "SetAdvanceEvery", "SetModeByIndex", "SetModeByName"}

(* C24: a playback operation on one Instance leaves every other Instance's  *)
(* running flag, currentFrame, cadence counter, advanceEvery and active     *)
(* Mode as they were, also when both come from the same Entity and Mode,    *)
(* and changes no Mode's frame list, no Entity's mode map and not the Sheet.*)
C24_IndependentPlayback ==
    [][last'.op \in PlaybackOps =>
           /\ \A k \in Inst : last'.inst # k => instances'[k] = instances[k]
           /\ DOMAIN instances' = DOMAIN instances
           /\ UNCHANGED <<sheet, entityObj, modeObj>>]_vars

\* C24 witness: of two running Instances of the same Entity and Mode, at the same frame,
\* one was just advanced by Frame() and the other stayed behind
C24_Witness ==
    /\ Len(instances) = 2
    /\ instances[1].Entity = instances[2].Entity
    /\ instances[1].Mode = instances[2].Mode
    /\ instances[1].running /\ instances[2].running
    /\ instances[1].advanceEvery = instances[2].advanceEvery
    /\ last.op = "Frame" /\ last.inst = 1 /\ ~last.panics
    /\ instances[1].currentFrame = 1 /\ instances[2].currentFrame = 0
    /\ instances[2].advanceCt = 0

---------------------------------------------------------------------------
(* The opaque fast path: C25 *)

\* the RGBA image the frames are sub-images of
SheetImage == createSpriteSheet(ctor.img, DimInit(ctor.dims)).img

Overwriting == {"PlaceAtPoint", "draw.Src"}

(* C25: the fullyOpaque flag of a Mode is true iff every frame the Mode was *)
(* built with is fully opaque; PlaceSprite makes exactly one Frame() query, *)
(* and it overwrites (PlaceAtPoint or draw.Src) only if the frame placed    *)
(* belongs to the active Mode and all current frames of that Mode are fully *)
(* opaque; otherwise it draws with draw.Over.                               *)
C25_OpaqueFastPathSafe ==
    /\ [](\A m \in DOMAIN modeObj :
              modeObj[m].fullyOpaque <=>
                  \A f \in 0..(ctor.dims.FramesPerAnimation - 1) :
                      Opaque(SheetImage, LayoutRect(m[1], m[2], f)))
    /\ [][\A k \in Inst :
              (last'.op = "PlaceSprite" /\ last'.inst = k) =>
                  LET m == instances[k].Mode
                      one == FrameOf(instances[k], modeObj[m].frames)
                  IN  /\ instances'[k] = one.anim
                      /\ last'.panics = one.panics
                      /\ last'.ret = one.ret
                      /\ UNCHANGED <<sheet, entityObj, modeObj>>
                      /\ ~last'.panics =>
                             /\ \E f \in DOMAIN modeObj[m].frames : last'.ret = modeObj[m].frames[f]
                             /\ last'.draw \in Overwriting =>
                                    \A f \in DOMAIN modeObj[m].frames :
                                        Opaque(SheetImage, modeObj[m].frames[f])
                             /\ last'.draw \notin Overwriting => last'.draw = "draw.Over"
                             /\ (\E f \in DOMAIN modeObj[m].frames :
                                     ~Opaque(SheetImage, modeObj[m].frames[f])) =>
                                    last'.draw = "draw.Over"]_vars

\* C25 witness: on a sheet with a transparent pixel, a frame of a Mode that was shrunk and
\* switched to was placed by overwriting
C25_Witness ==
    /\ last.op = "PlaceSprite" /\ ~last.panics
    /\ last.draw = "PlaceAtPoint"
    /\ last.mode = <<0, 1>>
    /\ FrameCount(last.mode) = 1
    /\ instances[last.inst].running
    /\ \E m \in DOMAIN modeObj : ~modeObj[m].fullyOpaque

---------------------------------------------------------------------------
(* No growth: C26 *)

(* C26: along every sequence of operations on a constructed Sheet, no       *)
(* operation adds an index to the entity map, to an Entity's mode map or to *)
(* a Mode's frame list, so EntityCount(), every ModeCount() and every       *)
(* FrameCount() never increase; every FrameCount() stays >= 1.              *)
C26_NoGrowth ==
    /\ [](\A m \in DOMAIN modeObj : Len(modeObj[m].frames) >= 1)
    /\ [][/\ DOMAIN sheet'.entities \subseteq DOMAIN sheet.entities
          /\ MapLen(sheet'.entities) <= MapLen(sheet.entities)
          /\ DOMAIN entityObj' = DOMAIN entityObj
          /\ \A e \in DOMAIN entityObj :
                 /\ DOMAIN entityObj'[e].modes \subseteq DOMAIN entityObj[e].modes
                 /\ MapLen(entityObj'[e].modes) <= MapLen(entityObj[e].modes)
          /\ DOMAIN modeObj' = DOMAIN modeObj
          /\ \A m \in DOMAIN modeObj :
                 /\ Len(modeObj'[m].frames) <= Len(modeObj[m].frames)
                 /\ modeObj'[m].frames = SubSeq(modeObj[m].frames, 1, Len(modeObj'[m].frames))]_vars

\* C26 witness: entities, modes and frames have all been cut, after renames and playback
C26_Witness ==
    /\ last.op = "SetFrameCount" /\ ~last.err
    /\ FrameCount(last.mode) = 1
    /\ EntityCount = 1 /\ ctor.dims.EntitiesPerRow = 2
    /\ "Renamed" \in DOMAIN sheet.entityNamesToIndex
    /\ Len(instances) = 1 /\ instances[1].running

---------------------------------------------------------------------------
(* Shared mode names: C27 *)

(* C27: NewSheetWithEntityAndSharedModeNames called with valid dimensions,  *)
(* an image of the matching size, at least one entity name (and no more     *)
(* than the sheet holds) and more mode names than ModesPerEntity returns an *)
(* error and no Sheet, and does not panic.                                  *)
C27_SharedModeNameOverflowReturnsError ==
    (/\ ctor.op = "NewSheetWithEntityAndSharedModeNames"
     /\ FieldsPositive(ctor.dims)
     /\ Dx(ctor.img.Bounds) = WidthAsked(ctor.dims)
     /\ Dy(ctor.img.Bounds) = HeightAsked(ctor.dims)
     /\ Len(ctor.entityNames) >= 1
     /\ Len(ctor.entityNames) <= ctor.dims.EntitiesPerRow * ctor.dims.EntitiesPerColumn
     /\ Len(ctor.modeNames) > ctor.dims.ModesPerEntity) =>
        (ctor.err /\ ~ctor.panics /\ sheet.nil)

---------------------------------------------------------------------------
(* Resize: C28 *)

(* C28: when a resize is configured (ResizeWidth or ResizeHeight non-zero)  *)
(* on otherwise valid arguments, construction fails with an error and no    *)
(* Sheet if ResizeWidth*SpriteHeight # ResizeHeight*SpriteWidth, and        *)
(* otherwise gives a Sheet whose sprite size is ResizeWidth x ResizeHeight. *)
C28_ResizeKeepsAspectRatio ==
    LET d == ctor.dims
    IN  (/\ Constructed
         /\ FieldsPositive(d)
         /\ Dx(ctor.img.Bounds) = WidthAsked(d) /\ Dy(ctor.img.Bounds) = HeightAsked(d)
         /\ NamesFit
         /\ (d.ResizeWidth # 0 \/ d.ResizeHeight # 0)) =>
            IF d.ResizeWidth * d.SpriteHeight # d.ResizeHeight * d.SpriteWidth
            THEN ctor.err /\ ~ctor.panics /\ sheet.nil
            ELSE /\ ~ctor.err /\ ~ctor.panics /\ SheetBuilt
                 /\ \A m \in DOMAIN modeObj :
                        modeObj[m].spriteSize = Rect(0, 0, d.ResizeWidth, d.ResizeHeight)

---------------------------------------------------------------------------
(* Frame lookup by index: C29 *)

(* C29: Mode.GetFrame(index) and Instance.GetFrame(index) return the frame  *)
(* at that position and no error exactly when 0 <= index < FrameCount();    *)
(* for every other index, negative ones included, they return no frame and  *)
(* an error, without panicking; no animation state changes.                 *)
C29_GetFrameByIndex ==
    [][last'.op = "GetFrame" =>
           LET frames == modeObj[last'.mode].frames
           IN  /\ ~last'.panics
               /\ IF 0 <= last'.n /\ last'.n < Len(frames)
                  THEN ~last'.err /\ last'.ret = frames[last'.n + 1]
                  ELSE last'.err /\ last'.ret = ZR
               /\ UNCHANGED <<sheet, entityObj, modeObj, instances>>]_vars

---------------------------------------------------------------------------
(* Steady playback: C30 *)

\* the frames that n Frame() calls in a row return, starting from animation a
RECURSIVE FramesAhead(_, _, _)
FramesAhead(a, frames, n) ==
    IF n = 0 THEN <<>>
    ELSE LET r == FrameOf(a, frames)
         IN  <<r.ret>> \o FramesAhead(r.anim, frames, n - 1)

\* the position of a frame in its Mode's frame list (the frames of a Mode are distinct)
IndexOf(frames, r) == CHOOSE i \in 0..(Len(frames) - 1) : frames[i + 1] = r

(* C30: for a running Instance on which only Frame() is called, each call   *)
(* returns the index the previous call returned or that index plus one      *)
(* modulo FrameCount(); two consecutive increments of the index are exactly *)
(* advanceEvery calls apart; with FrameCount() > 1 every index returned is  *)
(* returned again within FrameCount()*advanceEvery calls.                   *)
C30_SteadyPlaybackOrder ==
    /\ [](\A k \in Inst :
              (instances[k].running /\ ~FrameOf(instances[k], ActiveFrames(k)).panics) =>
                  LET frames == ActiveFrames(k)
                      fc == Len(frames)
                      n == instances[k].advanceEvery
                      len == 2 * fc * n + n + 1
                      run == FramesAhead(instances[k], frames, len)
                      idx == [t \in 1..len |-> IndexOf(frames, run[t])]
                      incs == {t \in 2..len : idx[t] # idx[t - 1]}
                  IN  /\ \A t \in 2..len : idx[t] = idx[t - 1] \/ idx[t] = (idx[t - 1] + 1) % fc
                      /\ \A t1, t2 \in incs :
                             (t1 < t2 /\ \A t \in incs : ~(t1 < t /\ t < t2)) => t2 - t1 = n
                      /\ fc > 1 => \A t \in 1..(len - fc * n) :
                                       \E u \in (t + 1)..(t + fc * n) : idx[u] = idx[t])
    /\ [][\A k \in Inst :
              (/\ last'.op = "Frame" /\ last'.inst = k /\ ~last'.panics
               /\ last.op = "Frame" /\ last.inst = k /\ ~last.panics
               /\ instances[k].running) =>
                  LET frames == ActiveFrames(k)
                  IN  \/ IndexOf(frames, last'.ret) = IndexOf(frames, last.ret)
                      \/ IndexOf(frames, last'.ret) = (IndexOf(frames, last.ret) + 1) % Len(frames)]_vars

\* C30 witness: nine Frame() calls after StartAnimation() at advanceEvery 3 on a 3-frame
\* mode, the last returning the frame of the first
C30_Witness ==
    /\ InStreak(1, {"Start"})
    /\ last.op = "Frame"
    /\ streak.calls = 9
    /\ instances[1].running
    /\ instances[1].advanceEvery = 3
    /\ Len(ActiveFrames(1)) = 3
    /\ last.ret = streak.first

---------------------------------------------------------------------------
(* The layout as a partition: C31 *)

\* the (mode, frame position) pairs of the Sheet: one per extracted rectangle
Cells == {c \in (DOMAIN modeObj) \X (1..(MaxFrames + 1)) : c[2] \in DOMAIN modeObj[c[1]].frames}

CellRect(c) == modeObj[c[1]].frames[c[2]]

Inside(r, b) ==
    b.Min.X <= r.Min.X /\ r.Max.X <= b.Max.X /\ b.Min.Y <= r.Min.Y /\ r.Max.Y <= b.Max.Y

(* C31: in a Sheet built from valid dimensions and a matching image, the    *)
(* rectangles of two distinct (entity, mode, frame) triples are disjoint,   *)
(* every rectangle is non-empty and lies inside the bounds of the image it  *)
(* was cut from, and the rectangles of a Sheet built by NewSheet cover that *)
(* image (counted by area where every rectangle is a whole sprite, pixel by *)
(* pixel on the small and on the clipped sheets).                           *)
C31_LayoutIsPartition ==
    SheetBuilt =>
        LET b == SheetImage.Bounds
            whole == \A c \in Cells : Dx(CellRect(c)) = CutWidth /\ Dy(CellRect(c)) = CutHeight
        IN  /\ \A c \in Cells : ~RectEmpty(CellRect(c)) /\ Inside(CellRect(c), b)
            /\ \A c1, c2 \in Cells :
                   c1 # c2 => RectEmpty(RectIntersect(CellRect(c1), CellRect(c2)))
            /\ ctor.op = "NewSheet" =>
                   /\ whole => Cardinality(Cells) * CutWidth * CutHeight = Dx(b) * Dy(b)
                   /\ (CutWidth = 2 \/ ~whole) =>
                          \A x \in b.Min.X..(b.Max.X - 1), y \in b.Min.Y..(b.Max.Y - 1) :
                              \E c \in Cells : PtIn(Pt(x, y), CellRect(c))

\* C31 witness: a sheet of 2x2 entities with 3 modes in rows of 2 frames, cut from an image at (3,5)
C31_Witness ==
    /\ SheetBuilt
    /\ ctor.op = "NewSheet"
    /\ ctor.dims.FramesRunRows
    /\ ctor.dims.EntitiesPerRow = 2 /\ ctor.dims.EntitiesPerColumn = 2
    /\ ctor.dims.ModesPerEntity = 3 /\ ctor.dims.FramesPerAnimation = 2
    /\ ctor.img.Bounds.Min = Pt(3, 5)
    /\ Cardinality(Cells) = 24
    /\ CellRect(<<<<3, 2>>, 2>>).Max = ctor.img.Bounds.Max

---------------------------------------------------------------------------
(* Name reachability: C32 *)

(* C32: every entity present in the Sheet (GetEntityByIndex(i) succeeds) is *)
(* returned by GetEntityByName of its own name: the name map and the entity *)
(* map hold the same indices and each name leads to the entity that stores  *)
(* it, in every state RenameEntity and SetEntityCount calls lead to.        *)
C32_EntitiesReachableByName ==
    SheetBuilt =>
        /\ \A i \in DOMAIN sheet.entities :
               LET byIndex == GetEntityByIndex(i)
                   byName == GetEntityByName(entityObj[byIndex.ref].name)
               IN  ~byName.err /\ ~byName.panics /\ byName.ref = byIndex.ref
        /\ {sheet.entityNamesToIndex[n] : n \in DOMAIN sheet.entityNamesToIndex} = DOMAIN sheet.entities

---------------------------------------------------------------------------
(* The cadence counter: C33 *)

(* C33: in every reachable state of an Instance the cadence counter is at   *)
(* least 0 and below advanceEvery, and currentFrame is at least 0.          *)
C33_CadenceCounterInRange ==
    \A k \in Inst :
        /\ 0 <= instances[k].advanceCt
        /\ instances[k].advanceCt < instances[k].advanceEvery
        /\ 0 <= instances[k].currentFrame

============================================================================
